---- MODULE Spec2Model ----
(***************************************************************************)
(* A model of soliplex_sql: the SQL adapter (adapter.py), its read-only    *)
(* guard, and the adapter cache of the tool functions (tools.py).          *)
(*                                                                         *)
(* A SQL text is a sequence of one-character strings, so that strip(),     *)
(* upper() and startswith() are computed on characters as Python does.     *)
(***************************************************************************)
EXTENDS Integers, Sequences, FiniteSets, TLC

(***************************************************************************)
(* Bounds of the model.                                                    *)
(***************************************************************************)
MaxDbRows == 2
MaxAdapters == 2
\* the longest text handed to the splitter alone
MaxSqlLen == 5
\* the longest time a pending driver call is followed, in timeout periods
MaxElapsed == 2

(***************************************************************************)
(* Characters and the str methods the adapter uses.                        *)
(***************************************************************************)
LowerChars == <<"a","b","c","d","e","f","g","h","i","j","k","l","m",
                "n","o","p","q","r","s","t","u","v","w","x","y","z">>
UpperChars == <<"A","B","C","D","E","F","G","H","I","J","K","L","M",
                "N","O","P","Q","R","S","T","U","V","W","X","Y","Z">>

\* str.upper() on one character
UpperChar(c) ==
    IF \E i \in 1..26 : LowerChars[i] = c
    THEN UpperChars[CHOOSE i \in 1..26 : LowerChars[i] = c]
    ELSE c

\* an upper() that leaves every letter as it is
UpperIdentity(s) == s

\* str.upper()
upper(s) == [i \in 1..Len(s) |-> UpperChar(s[i])]

\* the characters str.strip() removes
IsSpace(c) == c \in {" ", "\t", "\n", "\r"}

\* str.strip(): the text between the first and the last non-space character
strip(s) ==
    LET keep == {i \in 1..Len(s) : ~IsSpace(s[i])}
    IN  IF keep = {} THEN <<>>
        ELSE LET lo == CHOOSE i \in keep : \A j \in keep : i <= j
                 hi == CHOOSE i \in keep : \A j \in keep : j <= i
             IN  SubSeq(s, lo, hi)

\* str.startswith(tuple of prefixes)
startswith(s, prefixes) ==
    \E p \in prefixes : Len(p) <= Len(s) /\ SubSeq(s, 1, Len(p)) = p

(***************************************************************************)
(* Keywords.                                                               *)
(***************************************************************************)
KwSelect   == <<"S","E","L","E","C","T">>
KwExplain  == <<"E","X","P","L","A","I","N">>
KwPragma   == <<"P","R","A","G","M","A">>
KwShow     == <<"S","H","O","W">>
KwDescribe == <<"D","E","S","C","R","I","B","E">>
KwWith     == <<"W","I","T","H">>
KwInsert   == <<"I","N","S","E","R","T">>
KwUpdate   == <<"U","P","D","A","T","E">>
KwDelete   == <<"D","E","L","E","T","E">>
KwCreate   == <<"C","R","E","A","T","E">>
KwDrop     == <<"D","R","O","P">>
KwAlter    == <<"A","L","T","E","R">>
KwReplace  == <<"R","E","P","L","A","C","E">>
KwTruncate == <<"T","R","U","N","C","A","T","E">>
KwMerge    == <<"M","E","R","G","E">>
KwCall     == <<"C","A","L","L">>
KwVacuum   == <<"V","A","C","U","U","M">>

\* adapter.py: SQL statements allowed in read-only mode
_READONLY_PREFIXES ==
    {KwSelect, KwExplain, KwPragma, KwShow, KwDescribe, KwWith}

(***************************************************************************)
(* SQL texts the callers pass: each keyword in upper case, and in lower    *)
(* or mixed case behind leading whitespace; blank texts; an unclassified   *)
(* statement; batches with ';' outside and inside quoted literals.         *)
(***************************************************************************)
LowerChar(c) ==
    IF \E i \in 1..26 : UpperChars[i] = c
    THEN LowerChars[CHOOSE i \in 1..26 : UpperChars[i] = c]
    ELSE c

lower(s) == [i \in 1..Len(s) |-> LowerChar(s[i])]

\* "Select": the first letter in upper case, the rest in lower case
Capitalized(s) == <<s[1]>> \o lower(Tail(s))

TailOne == <<" ", "1">>
TailT   == <<" ", "t">>
Semi    == <<";">>

ReadTexts ==
    {k \o TailOne : k \in _READONLY_PREFIXES}
    \cup {<<" ", "\n">> \o lower(k) \o TailOne : k \in _READONLY_PREFIXES}
    \cup {<<"\t">> \o Capitalized(KwSelect) \o TailOne,
          KwSelect \o <<"E","D">>}

WriteTexts ==
    {k \o TailT : k \in {KwInsert, KwUpdate, KwDelete, KwDrop}}
    \cup {<<" ">> \o lower(k) \o TailT : k \in {KwInsert, KwDrop}}
    \cup {<<"\n">> \o Capitalized(KwDelete) \o TailT \o <<" ">>}

OtherTexts ==
    {KwVacuum, <<>>, <<" ", "\n">>, Semi, <<"1">>}

BatchTexts ==
    {KwSelect \o TailOne \o Semi \o <<" ">> \o KwDrop \o TailT,
     KwSelect \o TailOne \o Semi \o KwSelect \o TailOne \o Semi,
     KwPragma \o TailT \o Semi \o lower(KwInsert) \o TailT \o Semi
        \o KwSelect \o TailOne,
     KwInsert \o TailT \o Semi \o KwSelect \o TailOne,
     KwSelect \o <<" ", "'", ";", "'">>,
     KwSelect \o <<" ", "'", ";">> \o KwDrop \o <<"'", "'", ";", "'">>}

Texts == ReadTexts \cup WriteTexts \cup OtherTexts \cup BatchTexts

(***************************************************************************)
(* Exceptions and results.  A call's outcome is a record: raised names     *)
(* the exception type ("None": the call returned), msg its message as a    *)
(* sequence of words, value the returned dict.                             *)
(***************************************************************************)
NoValue ==
    [columns |-> <<>>, rows |-> <<>>, row_count |-> 0,
     truncated |-> FALSE, execution_time_ms |-> 0]

Returned(v) == [raised |-> "None", msg |-> <<>>, value |-> v]

Raised(type, msg) == [raised |-> type, msg |-> msg, value |-> NoValue]

\* adapter.py _check_read_only: the message of the QueryExecutionError
ReadOnlyMsg ==
    <<"Database", "is", "in", "read-only", "mode.", "Only",
      "SELECT", "EXPLAIN", "PRAGMA", "SHOW", "DESCRIBE", "allowed.">>

\* _check_read_only without strip(): a statement behind whitespace is rejected
CheckReadOnlyNoStrip(read_only, sql_query) ==
    IF ~read_only THEN Returned(NoValue)
    ELSE IF ~startswith(upper(sql_query), _READONLY_PREFIXES)
         THEN Raised("QueryExecutionError", ReadOnlyMsg)
         ELSE Returned(NoValue)

\* _check_read_only that passes a statement it should reject (INSERT)
CheckReadOnlyLax(read_only, sql_query) ==
    IF ~read_only THEN Returned(NoValue)
    ELSE IF ~startswith(upper(strip(sql_query)),
                        _READONLY_PREFIXES \cup {KwInsert})
         THEN Raised("QueryExecutionError", ReadOnlyMsg)
         ELSE Returned(NoValue)

\* _check_read_only whose prefix tuple lacks WITH
CheckReadOnlyNoWith(read_only, sql_query) ==
    IF ~read_only THEN Returned(NoValue)
    ELSE IF ~startswith(upper(strip(sql_query)),
                        _READONLY_PREFIXES \ {KwWith})
         THEN Raised("QueryExecutionError", ReadOnlyMsg)
         ELSE Returned(NoValue)

\* SoliplexSQLAdapter._check_read_only(sql_query) on an adapter whose
\* read_only property is read_only: the outcome of the call
_check_read_only(read_only, sql_query) ==
    IF ~read_only THEN Returned(NoValue)
    ELSE LET normalized == upper(strip(sql_query))
         IN  IF ~startswith(normalized, _READONLY_PREFIXES)
             THEN Raised("QueryExecutionError", ReadOnlyMsg)
             ELSE Returned(NoValue)

(***************************************************************************)
(* The write half of the statement classifier of the spec (section 4.2):   *)
(* the statement, trimmed and upper-cased, starts with a write keyword.    *)
(***************************************************************************)
_WRITE_PREFIXES ==
    {KwInsert, KwUpdate, KwDelete, KwCreate, KwDrop, KwAlter, KwReplace,
     KwTruncate, KwMerge, KwCall}

_is_write_query(sql_query) ==
    startswith(upper(strip(sql_query)), _WRITE_PREFIXES)

(***************************************************************************)
(* The statement splitter of the spec (section 4.1): split at every ';'    *)
(* outside a quoted literal, trim, drop empty statements.  quote is the    *)
(* character that opened the current literal, "" outside a literal.        *)
(***************************************************************************)
\* an emit that keeps an empty statement
EmitKeepEmpty(out, buf) == Append(out, strip(buf))

\* an emit that does not trim the statement
EmitNoTrim(out, buf) == IF strip(buf) = <<>> THEN out ELSE Append(out, buf)

Emit(out, buf) == IF strip(buf) = <<>> THEN out ELSE Append(out, strip(buf))

\* a scan that knows no literals: it splits at every ';'
RECURSIVE SplitScanNoQuotes(_, _, _, _, _)
SplitScanNoQuotes(s, i, buf, quote, out) ==
    IF i > Len(s) THEN Emit(out, buf)
    ELSE IF s[i] = ";"
         THEN SplitScanNoQuotes(s, i + 1, <<>>, "", Emit(out, buf))
         ELSE SplitScanNoQuotes(s, i + 1, Append(buf, s[i]), "", out)

\* a scan that keeps a doubled quote and then leaves the literal
RECURSIVE SplitScanEscapeCloses(_, _, _, _, _)
SplitScanEscapeCloses(s, i, buf, quote, out) ==
    IF i > Len(s) THEN Emit(out, buf)
    ELSE LET c == s[i] IN
         IF quote = ""
         THEN IF c \in {"'", "\""}
              THEN SplitScanEscapeCloses(s, i + 1, Append(buf, c), c, out)
              ELSE IF c = ";"
                   THEN SplitScanEscapeCloses(s, i + 1, <<>>, "",
                                              Emit(out, buf))
                   ELSE SplitScanEscapeCloses(s, i + 1, Append(buf, c), "",
                                              out)
         ELSE IF c = quote
              THEN IF i + 1 <= Len(s) /\ s[i + 1] = quote
                   THEN SplitScanEscapeCloses(s, i + 2, buf \o <<c, c>>, "",
                                              out)
                   ELSE SplitScanEscapeCloses(s, i + 1, Append(buf, c), "",
                                              out)
              ELSE SplitScanEscapeCloses(s, i + 1, Append(buf, c), quote, out)

\* a scan that drops the buffer when the input ends inside a literal
RECURSIVE SplitScanDropsOpen(_, _, _, _, _)
SplitScanDropsOpen(s, i, buf, quote, out) ==
    IF i > Len(s) THEN (IF quote = "" THEN Emit(out, buf) ELSE out)
    ELSE LET c == s[i] IN
         IF quote = ""
         THEN IF c \in {"'", "\""}
              THEN SplitScanDropsOpen(s, i + 1, Append(buf, c), c, out)
              ELSE IF c = ";"
                   THEN SplitScanDropsOpen(s, i + 1, <<>>, "", Emit(out, buf))
                   ELSE SplitScanDropsOpen(s, i + 1, Append(buf, c), "", out)
         ELSE IF c = quote
              THEN IF i + 1 <= Len(s) /\ s[i + 1] = quote
                   THEN SplitScanDropsOpen(s, i + 2, buf \o <<c, c>>, quote,
                                           out)
                   ELSE SplitScanDropsOpen(s, i + 1, Append(buf, c), "", out)
              ELSE SplitScanDropsOpen(s, i + 1, Append(buf, c), quote, out)

RECURSIVE SplitScan(_, _, _, _, _)
SplitScan(s, i, buf, quote, out) ==
    IF i > Len(s) THEN Emit(out, buf)
    ELSE LET c == s[i] IN
         IF quote = ""
         THEN IF c \in {"'", "\""}
              THEN SplitScan(s, i + 1, Append(buf, c), c, out)
              ELSE IF c = ";"
                   THEN SplitScan(s, i + 1, <<>>, "", Emit(out, buf))
                   ELSE SplitScan(s, i + 1, Append(buf, c), "", out)
         ELSE IF c = quote
              THEN IF i + 1 <= Len(s) /\ s[i + 1] = quote
                   THEN SplitScan(s, i + 2, buf \o <<c, c>>, quote, out)
                   ELSE SplitScan(s, i + 1, Append(buf, c), "", out)
              ELSE SplitScan(s, i + 1, Append(buf, c), quote, out)

_split_statements(sql) == SplitScan(sql, 1, <<>>, "", <<>>)

(***************************************************************************)
(* The external driver (sql_toolset_pydantic_ai), as the adapter sees it:  *)
(* one table per database, of which the model keeps the number of rows.    *)
(* The engine runs the statements of the text it is given in order: an     *)
(* INSERT adds a row, a DELETE, DROP or TRUNCATE removes all rows, a       *)
(* statement that reads returns the rows.                                  *)
(***************************************************************************)
Begins(stmt, kws) == startswith(upper(strip(stmt)), kws)

ApplyStatement(n, stmt) ==
    IF Begins(stmt, {KwInsert}) THEN n + 1
    ELSE IF Begins(stmt, {KwDelete, KwDrop, KwTruncate}) THEN 0
    ELSE n

RECURSIVE ApplyAll(_, _)
ApplyAll(n, stmts) ==
    IF stmts = <<>> THEN n
    ELSE ApplyAll(ApplyStatement(n, Head(stmts)), Tail(stmts))

\* the table after the engine ran the text
DriverEffect(n, text) == ApplyAll(n, _split_statements(text))

\* what execute(text) returns: the rows, when the text's last statement reads
DriverResult(n, text) ==
    LET stmts == _split_statements(text)
        reads == stmts # <<>>
                 /\ Begins(stmts[Len(stmts)], {KwSelect, KwWith})
    IN  [columns |-> IF reads THEN <<"id">> ELSE <<>>,
         rows |-> IF reads THEN [i \in 1..n |-> i] ELSE <<>>,
         execution_time_ms |-> 1,
         raised |-> "None", msg |-> <<>>]

(***************************************************************************)
(* Python's list slice rows[:limit] and "a or b" on an optional integer.   *)
(* An optional integer is a set: {} is None, {n} is n.                     *)
(***************************************************************************)
PySlice(rows, limit) ==
    LET n == Len(rows)
        k == IF limit >= 0
             THEN (IF limit < n THEN limit ELSE n)
             ELSE (IF n + limit > 0 THEN n + limit ELSE 0)
    IN  SubSeq(rows, 1, k)

PyOr(opt, default) ==
    IF opt = {} \/ opt = {0} THEN default ELSE CHOOSE n \in opt : TRUE

(***************************************************************************)
(* State.                                                                  *)
(***************************************************************************)
VARIABLES
    adapters,        \* the SoliplexSQLAdapter objects, by identity 1, 2, ...
    _adapter_cache,  \* tools.py: the module-level dict, in insertion order
    db,              \* the table of each database: its number of rows
    pc,              \* where each caller's running call stands
    call,            \* the running call of each caller: operation, arguments
    ret,             \* the outcome of each caller's call once it is done
    driverCalls,     \* the driver calls the running call has made, in order
    driverRet,       \* what the driver's execute returned to the call
    dbSeen,          \* the table when the call started and when it ended
    createCalls,     \* the keys create_deps was called for since the last
                     \* clear(), one per call
    returned,        \* what _get_adapter returned since the last clear():
                     \* pairs of connection parameters and adapter
    emitted,         \* the events the running call has given its emitter
    elapsed          \* how long the call's pending driver call has run

vars == <<adapters, _adapter_cache, db, pc, call, ret, driverCalls,
          driverRet, dbSeen, createCalls, returned, emitted, elapsed>>

cacheVars == <<adapters, _adapter_cache, createCalls, returned>>
driverVars == <<db, driverCalls, driverRet, dbSeen, emitted, elapsed>>

Callers == {"c1"}

NoCall == [op |-> "none"]
NoRet == Returned(NoValue)
NoDriverRet ==
    [columns |-> <<>>, rows |-> <<>>, execution_time_ms |-> 0,
     raised |-> "None", msg |-> <<>>]
NoSeen == [before |-> 0, after |-> 0]

\* the optional max_rows argument of query(): None, 0, 1, 3
MaxRowsArgs == {{}, {0}, {1}, {3}}

TableNames == {"t", "missing"}

(***************************************************************************)
(* The adapter under test, as the fixtures of tests/functional build it:   *)
(* a read-only adapter and a writable adapter on one database holding one  *)
(* row, both with the row cap FixtureMaxRows.                              *)
(***************************************************************************)
FixtureMaxRows == 1
Sqlite == <<"s","q","l","i","t","e">>
Postgresql == <<"p","o","s","t","g","r","e","s","q","l">>
UrlA == Sqlite \o <<":","/","/","/","a">>
UrlB == Sqlite \o <<":","/","/","/","b">>
UrlPg == Postgresql \o <<":","/","/","h","/","d">>
UrlBad == <<"m","y","s","q","l",":","/","/","h">>
\* config.py SQLToolSettings.database_url: "sqlite:///./data.db"
UrlEnv == Sqlite \o <<":","/","/","/",".","/","d","a","t","a",".","d","b">>
FixtureUrl == UrlA

(***************************************************************************)
(* The driver behind an adapter (sql_deps.database).  Its code is not part *)
(* of the repository, so the model takes every behaviour the adapter can   *)
(* meet: the backend object has no _connection attribute, has one without  *)
(* a commit method, or has one with commit; and execute either commits a   *)
(* write itself (autocommit) or leaves it in the connection's open         *)
(* transaction, where only this connection sees it and where close()       *)
(* discards it.                                                            *)
(***************************************************************************)
Drivers ==
    {[connection |-> c, autocommit |-> b] :
        c \in {"none", "no_commit", "commit"}, b \in BOOLEAN}

\* sqlite3 / aiosqlite as SQLiteDatabase opens it: a connection with commit,
\* writes stay in the open transaction
SqliteDriver == [connection |-> "commit", autocommit |-> FALSE]

\* pending: the table as the connection's open transaction has it, {} when
\* no transaction is open; wrote: the table as the adapter's last write
\* through query() left it; connects: the connect() calls made on the
\* adapter's driver
Adapter(url, ro, cap) ==
    [database_url |-> url, read_only |-> ro, max_rows |-> cap, closes |-> 0,
     connects |-> 0, driver |-> SqliteDriver, pending |-> {}, wrote |-> {}]

\* the adapter of a test fixture: the fixture awaits deps.database.connect()
\* before it hands the deps to SoliplexSQLAdapter
Fixture(url, ro, cap) == [Adapter(url, ro, cap) EXCEPT !.connects = 1]

WithDriver(adapter, d) == [adapter EXCEPT !.driver = d]

Init ==
    /\ \E d \in Drivers :
          adapters = <<WithDriver(Fixture(FixtureUrl, TRUE, FixtureMaxRows),
                                  d),
                       WithDriver(Fixture(FixtureUrl, FALSE, FixtureMaxRows),
                                  d)>>
    /\ _adapter_cache = <<>>
    /\ createCalls = <<>>
    /\ returned = {}
    /\ db = [u \in {FixtureUrl} |-> 1]
    /\ pc = [p \in Callers |-> "idle"]
    /\ call = [p \in Callers |-> NoCall]
    /\ ret = [p \in Callers |-> NoRet]
    /\ driverCalls = [p \in Callers |-> <<>>]
    /\ driverRet = [p \in Callers |-> NoDriverRet]
    /\ dbSeen = [p \in Callers |-> NoSeen]
    /\ emitted = [p \in Callers |-> <<>>]
    /\ elapsed = [p \in Callers |-> 0]

Self(p) == adapters[call[p].self]
Url(p) == Self(p).database_url

\* the table as the connection of adapter a sees it
View(a) ==
    IF adapters[a].pending = {}
    THEN db[adapters[a].database_url]
    ELSE CHOOSE n \in adapters[a].pending : TRUE

(***************************************************************************)
(* _emit_task_progress.  A call record may carry agui_emitter and          *)
(* related_task_id (TRUE: given, FALSE: None) and soliplex (whether        *)
(* soliplex.agui.events can be imported in the process); a record without  *)
(* them is a call with the defaults, agui_emitter and related_task_id      *)
(* None.  An event is its status and its result, <<>> for no result.       *)
(***************************************************************************)
HasEmitter(c) == "agui_emitter" \in DOMAIN c

\* an _emit_task_progress that emits whenever an emitter is given
EmitIgnoresTaskId(log, c, status, result) ==
    IF ~HasEmitter(c) THEN log
    ELSE IF ~c.agui_emitter THEN log
    ELSE IF ~c.soliplex THEN log
    ELSE Append(log, [status |-> status, result |-> result])

_emit_task_progress(log, c, status, result) ==
    IF ~HasEmitter(c) THEN log
    ELSE IF ~c.related_task_id \/ ~c.agui_emitter THEN log
    ELSE IF ~c.soliplex THEN log
    ELSE Append(log, [status |-> status, result |-> result])

\* p's call emits an event
EmitProgress(p, status, result) ==
    emitted' = [emitted EXCEPT ![p] =
                   _emit_task_progress(emitted[p], call[p], status, result)]

\* the call of p ends with outcome r
Finish(p, r, after) ==
    /\ pc' = [pc EXCEPT ![p] = "done"]
    /\ ret' = [ret EXCEPT ![p] = r]
    /\ dbSeen' = [dbSeen EXCEPT ![p].after = after]

(***************************************************************************)
(* SoliplexSQLAdapter.query, up to its await: the read-only check of the   *)
(* text, then the call of the driver's execute with the text.              *)
(***************************************************************************)
QueryCallAs(p, c) ==
    LET a == c.self
        sql == c.sql_query
        chk == _check_read_only(adapters[a].read_only, sql)
    IN
    /\ pc[p] = "idle"
    /\ call' = [call EXCEPT ![p] = c]
    /\ dbSeen' = [dbSeen EXCEPT ![p] =
            [before |-> View(a), after |-> View(a)]]
    /\ IF chk.raised # "None"
       THEN /\ pc' = [pc EXCEPT ![p] = "done"]
            /\ ret' = [ret EXCEPT ![p] = chk]
            /\ driverCalls' = [driverCalls EXCEPT ![p] = <<>>]
            /\ emitted' = emitted
       ELSE /\ pc' = [pc EXCEPT ![p] = "execute"]
            /\ ret' = ret
            /\ driverCalls' = [driverCalls EXCEPT ![p] =
                    <<[method |-> "execute", arg |-> sql]>>]
            /\ emitted' = [emitted EXCEPT ![p] =
                    _emit_task_progress(emitted[p], c, "in_progress", <<>>)]
    /\ UNCHANGED <<cacheVars, db, driverRet, elapsed>>

QueryCall(p, a, sql, m) ==
    QueryCallAs(p, [op |-> "query", self |-> a, sql_query |-> sql,
                    max_rows |-> m])

QueryStart(p) ==
    \E a \in DOMAIN adapters, sql \in Texts, m \in MaxRowsArgs :
        QueryCall(p, a, sql, m)

\* the dict query() returns for the driver's result
QueryValue(result, max_rows, self) ==
    LET limit == PyOr(max_rows, self.max_rows)
        rows == PySlice(result.rows, limit)
    IN  [columns |-> result.columns,
         rows |-> rows,
         row_count |-> Len(rows),
         truncated |-> Len(result.rows) > limit,
         execution_time_ms |-> result.execution_time_ms]

\* a query() that needs the connection's commit to return
QueryOutcomeNeedsCommit(result, max_rows, self) ==
    IF self.driver.connection = "commit"
    THEN Returned(QueryValue(result, max_rows, self))
    ELSE Raised("AttributeError", <<"commit">>)

\* what query() does with the driver's result: the dict is returned
QueryOutcome(result, max_rows, self) ==
    Returned(QueryValue(result, max_rows, self))

\* the driver's execute returns: query() caps the rows and returns.  A
\* write is committed by an autocommit driver and otherwise stays in the
\* connection's open transaction; query() itself makes no further driver
\* call.
ExecuteReturns(p) ==
    LET a == call[p].self
        before == View(a)
        after == DriverEffect(before, call[p].sql_query)
        result == DriverResult(after, call[p].sql_query)
        dirty == Self(p).pending # {} \/ after # before
        wrote == IF after # before THEN {after} ELSE Self(p).wrote
    IN  /\ pc[p] = "execute"
        /\ Self(p).closes = 0
        /\ after <= MaxDbRows
        /\ IF dirty /\ Self(p).driver.autocommit
           THEN /\ db' = [db EXCEPT ![Url(p)] = after]
                /\ adapters' = [adapters EXCEPT ![a].pending = {},
                                                ![a].wrote = wrote]
           ELSE /\ db' = db
                /\ adapters' = [adapters EXCEPT
                        ![a].pending = IF dirty THEN {after} ELSE {},
                        ![a].wrote = wrote]
        /\ driverRet' = [driverRet EXCEPT ![p] = result]
        /\ Finish(p, QueryOutcome(result, call[p].max_rows, Self(p)), after)
        /\ EmitProgress(p, "completed", <<"Returned", "rows">>)
        /\ UNCHANGED <<_adapter_cache, createCalls, returned, call,
                       driverCalls, elapsed>>

DriverErrorMsg == <<"driver", "error">>

\* the errors a driver call raises
DriverErrors ==
    {Raised("DriverError", DriverErrorMsg),
     Raised("DriverError", <<"timeout">>)}

\* a driver error that reaches the caller wrapped in QueryExecutionError
DriverRaisesWrapped(p) ==
    \E e \in DriverErrors :
        /\ pc[p] \in {"execute", "explain", "get_tables", "get_schema",
                      "get_table_info"}
        /\ driverRet' = [driverRet EXCEPT ![p] =
                [NoDriverRet EXCEPT !.raised = e.raised, !.msg = e.msg]]
        /\ Finish(p, Raised("QueryExecutionError", e.msg),
                  View(call[p].self))
        /\ EmitProgress(p, "in_progress", <<"Error:">> \o e.msg)
        /\ UNCHANGED <<cacheVars, db, call, driverCalls, elapsed>>

\* a driver call raises: the operation logs and re-raises the driver's error
DriverRaises(p) ==
    \E e \in DriverErrors :
        /\ pc[p] \in {"execute", "explain", "get_tables", "get_schema",
                      "get_table_info"}
        /\ driverRet' = [driverRet EXCEPT ![p] =
                [NoDriverRet EXCEPT !.raised = e.raised, !.msg = e.msg]]
        /\ Finish(p, e, View(call[p].self))
        /\ EmitProgress(p, "in_progress", <<"Error:">> \o e.msg)
        /\ UNCHANGED <<cacheVars, db, call, driverCalls, elapsed>>

(***************************************************************************)
(* explain_query, list_tables, get_schema, describe_table: the driver      *)
(* call, without any check of the adapter's read_only flag.                *)
(***************************************************************************)
StartDriverCall(p, c, method, arg) ==
    /\ pc[p] = "idle"
    /\ call' = [call EXCEPT ![p] = c]
    /\ pc' = [pc EXCEPT ![p] = method]
    /\ driverCalls' = [driverCalls EXCEPT ![p] =
            <<[method |-> method, arg |-> arg]>>]
    /\ dbSeen' = [dbSeen EXCEPT ![p] =
            [before |-> View(c.self), after |-> View(c.self)]]
    /\ emitted' = [emitted EXCEPT ![p] =
            _emit_task_progress(emitted[p], c, "in_progress", <<>>)]
    /\ UNCHANGED <<cacheVars, db, ret, driverRet, elapsed>>

ExplainStart(p) ==
    \E a \in DOMAIN adapters, sql \in Texts :
        StartDriverCall(p, [op |-> "explain_query", self |-> a,
                            sql_query |-> sql], "explain", sql)

ListTablesStart(p) ==
    \E a \in DOMAIN adapters :
        StartDriverCall(p, [op |-> "list_tables", self |-> a],
                        "get_tables", <<>>)

GetSchemaStart(p) ==
    \E a \in DOMAIN adapters :
        StartDriverCall(p, [op |-> "get_schema", self |-> a],
                        "get_schema", <<>>)

DescribeTableStart(p) ==
    \E a \in DOMAIN adapters, name \in TableNames :
        StartDriverCall(p, [op |-> "describe_table", self |-> a,
                            table_name |-> name], "get_table_info", name)

\* the driver's explain or metadata call returns; the value is the driver's
MetadataReturns(p) ==
    /\ pc[p] \in {"explain", "get_tables", "get_schema", "get_table_info"}
    /\ Finish(p, Returned([NoValue EXCEPT
                                !.row_count = View(call[p].self)]),
              View(call[p].self))
    /\ EmitProgress(p, "completed", <<"done">>)
    /\ UNCHANGED <<cacheVars, db, call, driverCalls, driverRet, elapsed>>

\* the caller takes the outcome; its next call starts afresh
Return(p) ==
    /\ pc[p] = "done"
    /\ pc' = [pc EXCEPT ![p] = "idle"]
    /\ call' = [call EXCEPT ![p] = NoCall]
    /\ ret' = [ret EXCEPT ![p] = NoRet]
    /\ driverCalls' = [driverCalls EXCEPT ![p] = <<>>]
    /\ driverRet' = [driverRet EXCEPT ![p] = NoDriverRet]
    /\ dbSeen' = [dbSeen EXCEPT ![p] = NoSeen]
    /\ emitted' = [emitted EXCEPT ![p] = <<>>]
    /\ elapsed' = [elapsed EXCEPT ![p] = 0]
    /\ UNCHANGED <<cacheVars, db>>

Next ==
    \E p \in Callers :
        \/ QueryStart(p)
        \/ ExecuteReturns(p)
        \/ DriverRaises(p)
        \/ ExplainStart(p)
        \/ ListTablesStart(p)
        \/ GetSchemaStart(p)
        \/ DescribeTableStart(p)
        \/ MetadataReturns(p)
        \/ Return(p)

Spec == Init /\ [][Next]_vars

(***************************************************************************)
(* sample_query(sql_query, limit=5): returns await self.query(sql_query,   *)
(* max_rows=limit).  An omitted limit is {}; the call record keeps the     *)
(* limit as given and the max_rows handed to query().                      *)
(***************************************************************************)
SampleDefaultLimit == 5

\* a sample_query that hands no max_rows to query()
SampleMaxRowsDropped(limit) == {}

\* the max_rows that sample_query hands to query()
SampleMaxRows(limit) == IF limit = {} THEN {SampleDefaultLimit} ELSE limit

\* the texts sample_query is called with: reads, writes in both letter
\* cases, a blank text and a batch
SampleTexts ==
    {KwSelect \o TailOne, <<" ", "\n">> \o lower(KwWith) \o TailOne,
     KwInsert \o TailT, <<" ">> \o lower(KwDrop) \o TailT, <<>>,
     KwInsert \o TailT \o Semi \o KwSelect \o TailOne}

SampleQueryStart(p) ==
    \E a \in DOMAIN adapters, sql \in SampleTexts, l \in MaxRowsArgs :
        QueryCallAs(p, [op |-> "sample_query", self |-> a,
                        sql_query |-> sql, max_rows |-> SampleMaxRows(l),
                        limit |-> l])

NextSample ==
    \E p \in Callers :
        \/ SampleQueryStart(p)
        \/ ExecuteReturns(p)
        \/ DriverRaises(p)
        \/ Return(p)

SpecSample == Init /\ [][NextSample]_vars

(***************************************************************************)
(* The operations called with and without an emitter and a task id, in a   *)
(* process where soliplex.agui.events can or cannot be imported.  The      *)
(* task that awaits the driver call may be cancelled: CancelledError is    *)
(* not an Exception, so no except clause of the adapter sees it.           *)
(***************************************************************************)
EventTexts == {KwSelect \o TailOne, KwInsert \o TailT, <<>>}

WithProgress(c, e, t, s) ==
    [x \in DOMAIN c \cup {"agui_emitter", "related_task_id", "soliplex"} |->
        IF x = "agui_emitter" THEN e
        ELSE IF x = "related_task_id" THEN t
        ELSE IF x = "soliplex" THEN s
        ELSE c[x]]

EventQueryStart(p) ==
    \E a \in DOMAIN adapters, sql \in EventTexts, e, t, s \in BOOLEAN :
        QueryCallAs(p, WithProgress([op |-> "query", self |-> a,
                                     sql_query |-> sql, max_rows |-> {}],
                                    e, t, s))

EventExplainStart(p) ==
    \E a \in DOMAIN adapters, sql \in EventTexts, e, t, s \in BOOLEAN :
        StartDriverCall(p, WithProgress([op |-> "explain_query", self |-> a,
                                         sql_query |-> sql], e, t, s),
                        "explain", sql)

EventListTablesStart(p) ==
    \E a \in DOMAIN adapters, e, t, s \in BOOLEAN :
        StartDriverCall(p, WithProgress([op |-> "list_tables", self |-> a],
                                        e, t, s),
                        "get_tables", <<>>)

EventGetSchemaStart(p) ==
    \E a \in DOMAIN adapters, e, t, s \in BOOLEAN :
        StartDriverCall(p, WithProgress([op |-> "get_schema", self |-> a],
                                        e, t, s),
                        "get_schema", <<>>)

EventDescribeTableStart(p) ==
    \E a \in DOMAIN adapters, name \in TableNames, e, t, s \in BOOLEAN :
        StartDriverCall(p, WithProgress([op |-> "describe_table",
                                         self |-> a, table_name |-> name],
                                        e, t, s),
                        "get_table_info", name)

\* the task is cancelled while it awaits the driver call: the await raises
\* CancelledError, which passes every "except Exception"
Cancelled(p) ==
    /\ pc[p] \in {"execute", "explain", "get_tables", "get_schema",
                  "get_table_info"}
    /\ driverRet' = [driverRet EXCEPT ![p] =
            [NoDriverRet EXCEPT !.raised = "CancelledError"]]
    /\ Finish(p, Raised("CancelledError", <<>>), View(call[p].self))
    /\ UNCHANGED <<cacheVars, db, call, driverCalls, emitted, elapsed>>

NextEvents ==
    \E p \in Callers :
        \/ EventQueryStart(p)
        \/ ExecuteReturns(p)
        \/ DriverRaises(p)
        \/ Cancelled(p)
        \/ EventExplainStart(p)
        \/ EventListTablesStart(p)
        \/ EventGetSchemaStart(p)
        \/ EventDescribeTableStart(p)
        \/ MetadataReturns(p)
        \/ Return(p)

SpecEvents == Init /\ [][NextEvents]_vars

(***************************************************************************)
(* Time.  The clock of a caller counts the periods of query_timeout that   *)
(* its pending driver call has run; the adapter awaits the driver call     *)
(* bare (adapter.py line 340: no wait_for, no timeout argument), so a      *)
(* period that passes changes nothing but the clock.                       *)
(***************************************************************************)
QueryTimeout == 1

TimeoutTexts == {KwSelect \o TailOne, KwInsert \o TailT}

TimeoutQueryStart(p) ==
    \E a \in DOMAIN adapters, sql \in TimeoutTexts :
        QueryCallAs(p, [op |-> "query", self |-> a, sql_query |-> sql,
                        max_rows |-> {}])

TimeoutListTablesStart(p) ==
    \E a \in DOMAIN adapters :
        StartDriverCall(p, [op |-> "list_tables", self |-> a],
                        "get_tables", <<>>)

Tick(p) ==
    /\ pc[p] \in {"execute", "explain", "get_tables", "get_schema",
                  "get_table_info"}
    /\ elapsed[p] < MaxElapsed
    /\ elapsed' = [elapsed EXCEPT ![p] = elapsed[p] + 1]
    /\ UNCHANGED <<cacheVars, db, pc, call, ret, driverCalls, driverRet,
                   dbSeen, emitted>>

NextTimeout ==
    \E p \in Callers :
        \/ TimeoutQueryStart(p)
        \/ TimeoutListTablesStart(p)
        \/ Tick(p)
        \/ ExecuteReturns(p)
        \/ MetadataReturns(p)
        \/ DriverRaises(p)
        \/ Return(p)

SpecTimeout == Init /\ [][NextTimeout]_vars

(***************************************************************************)
(* The read-only guard alone: every text, under both values of the flag.   *)
(***************************************************************************)
InitGuard ==
    /\ adapters = <<>>
    /\ _adapter_cache = <<>>
    /\ createCalls = <<>>
    /\ returned = {}
    /\ db = [u \in {FixtureUrl} |-> 1]
    /\ pc = [p \in Callers |-> "check"]
    /\ call \in [Callers -> {[op |-> "_check_read_only", read_only |-> ro,
                              sql_query |-> sql] :
                             ro \in BOOLEAN, sql \in Texts}]
    /\ ret = [p \in Callers |-> NoRet]
    /\ driverCalls = [p \in Callers |-> <<>>]
    /\ driverRet = [p \in Callers |-> NoDriverRet]
    /\ dbSeen = [p \in Callers |-> NoSeen]
    /\ emitted = [p \in Callers |-> <<>>]
    /\ elapsed = [p \in Callers |-> 0]

GuardStep(p) ==
    /\ pc[p] = "check"
    /\ pc' = [pc EXCEPT ![p] = "done"]
    /\ ret' = [ret EXCEPT ![p] =
            _check_read_only(call[p].read_only, call[p].sql_query)]
    /\ UNCHANGED <<cacheVars, db, call, driverCalls,
                   driverRet, dbSeen, emitted, elapsed>>

NextGuard == \E p \in Callers : GuardStep(p)

SpecGuard == InitGuard /\ [][NextGuard]_vars

(***************************************************************************)
(* The splitter alone: every text of at most MaxSqlLen characters over     *)
(* an alphabet that has the separator, both quote characters, a space and  *)
(* an ordinary character.                                                  *)
(***************************************************************************)
SqlAlphabet == {"a", ";", "'", "\"", " "}

SqlStrings == UNION {[1..n -> SqlAlphabet] : n \in 0..MaxSqlLen}

InitSplit ==
    /\ adapters = <<>>
    /\ _adapter_cache = <<>>
    /\ createCalls = <<>>
    /\ returned = {}
    /\ db = [u \in {FixtureUrl} |-> 1]
    /\ pc = [p \in Callers |-> "split"]
    /\ call \in [Callers -> {[op |-> "_split_statements", sql |-> s] :
                             s \in SqlStrings}]
    /\ ret = [p \in Callers |-> NoRet]
    /\ driverCalls = [p \in Callers |-> <<>>]
    /\ driverRet = [p \in Callers |-> NoDriverRet]
    /\ dbSeen = [p \in Callers |-> NoSeen]
    /\ emitted = [p \in Callers |-> <<>>]
    /\ elapsed = [p \in Callers |-> 0]

SplitStep(p) ==
    /\ pc[p] = "split"
    /\ pc' = [pc EXCEPT ![p] = "done"]
    /\ ret' = [ret EXCEPT ![p] =
            Returned([statements |-> _split_statements(call[p].sql)])]
    /\ UNCHANGED <<cacheVars, db, call, driverCalls,
                   driverRet, dbSeen, emitted, elapsed>>

NextSplit == \E p \in Callers : SplitStep(p)

SpecSplit == InitSplit /\ [][NextSplit]_vars

(***************************************************************************)
(* The classifier alone: the read-only check of a read-only adapter and    *)
(* _is_write_query on the same statement.  The statements are every        *)
(* keyword of the two sets and one of neither, in upper, lower and mixed   *)
(* case, bare, behind whitespace, and behind a character that is not       *)
(* whitespace; and blank statements.                                       *)
(***************************************************************************)
Keywords == _READONLY_PREFIXES \cup _WRITE_PREFIXES \cup {KwVacuum}

ClassifyTexts ==
    UNION {{k, k \o TailT, lower(k) \o TailT, Capitalized(k) \o TailT,
            <<" ", "\n">> \o lower(k) \o TailT,
            <<"\t">> \o k \o TailT \o <<" ">>,
            <<"x">> \o k \o TailT,
            SubSeq(k, 1, Len(k) - 1)} : k \in Keywords}
    \cup {<<>>, <<" ", "\n">>}

InitClassify ==
    /\ adapters = <<>>
    /\ _adapter_cache = <<>>
    /\ createCalls = <<>>
    /\ returned = {}
    /\ db = [u \in {FixtureUrl} |-> 1]
    /\ pc = [p \in Callers |-> "classify"]
    /\ call \in [Callers -> {[op |-> "classify", sql_query |-> s] :
                             s \in ClassifyTexts}]
    /\ ret = [p \in Callers |-> NoRet]
    /\ driverCalls = [p \in Callers |-> <<>>]
    /\ driverRet = [p \in Callers |-> NoDriverRet]
    /\ dbSeen = [p \in Callers |-> NoSeen]
    /\ emitted = [p \in Callers |-> <<>>]
    /\ elapsed = [p \in Callers |-> 0]

ClassifyStep(p) ==
    /\ pc[p] = "classify"
    /\ pc' = [pc EXCEPT ![p] = "done"]
    /\ ret' = [ret EXCEPT ![p] = Returned(
            [read_only_safe |->
                 _check_read_only(TRUE, call[p].sql_query).raised = "None",
             write |-> _is_write_query(call[p].sql_query)])]
    /\ UNCHANGED <<cacheVars, db, call, driverCalls,
                   driverRet, dbSeen, emitted, elapsed>>

NextClassify == \E p \in Callers : ClassifyStep(p)

SpecClassify == InitClassify /\ [][NextClassify]_vars

(***************************************************************************)
(* The classification the claims speak of, stated on the characters: a     *)
(* statement is read-only-safe when, behind its leading whitespace, it     *)
(* spells one of the six keywords in any letter case.                      *)
(***************************************************************************)
SpellsAt(stmt, n, k) ==
    /\ \A i \in 1..n : IsSpace(stmt[i])
    /\ n + Len(k) <= Len(stmt)
    /\ \A i \in 1..Len(k) : UpperChar(stmt[n + i]) = k[i]

SpellsOneOf(stmt, kws) ==
    \E k \in kws, n \in 0..Len(stmt) : SpellsAt(stmt, n, k)

ClassifiedReadOnlySafe(stmt) ==
    SpellsOneOf(stmt, {KwSelect, KwExplain, KwPragma, KwShow, KwDescribe,
                       KwWith})

ClassifiedWrite(stmt) ==
    SpellsOneOf(stmt, {KwInsert, KwUpdate, KwDelete, KwCreate, KwDrop,
                       KwAlter, KwReplace, KwTruncate, KwMerge, KwCall})

Range(f) == {f[i] : i \in DOMAIN f}

IsQueryOn(p, ro) ==
    /\ pc[p] \in {"execute", "done"}
    /\ call[p].op = "query"
    /\ Self(p).read_only = ro

\* C1: on a read-only adapter, query() of a text that begins (in any
\* letter case, behind whitespace) with a write keyword ends with a
\* QueryExecutionError whose message mentions read-only, makes no driver
\* call, and leaves the table as it was when the call started.
C1_WriteRejected ==
    \A p \in Callers :
        (IsQueryOn(p, TRUE) /\ ClassifiedWrite(call[p].sql_query))
        => /\ pc[p] = "done"
           /\ ret[p].raised = "QueryExecutionError"
           /\ "read-only" \in Range(ret[p].msg)
           /\ driverCalls[p] = <<>>
           /\ dbSeen[p].after = dbSeen[p].before
           /\ View(call[p].self) = dbSeen[p].before

\* C1 witness: a lower-case insert behind a space was rejected
C1_Witness ==
    \E p \in Callers :
        /\ IsQueryOn(p, TRUE)
        /\ call[p].sql_query = <<" ">> \o lower(KwInsert) \o TailT
        /\ pc[p] = "done"
        /\ ret[p].raised = "QueryExecutionError"

\* C2: on a read-only adapter, every statement of every text handed to
\* the driver's execute is read-only-safe, wherever it stands in the batch.
C2_NoUnsafeStatementReachesDriver ==
    \A p \in Callers :
        IsQueryOn(p, TRUE)
        => \A i \in DOMAIN driverCalls[p] :
             driverCalls[p][i].method = "execute"
             => \A j \in DOMAIN _split_statements(driverCalls[p][i].arg) :
                  ClassifiedReadOnlySafe(
                      _split_statements(driverCalls[p][i].arg)[j])

\* C3: the guard raises exactly when read_only is true and the statement
\* is not read-only-safe; with read_only false it passes every statement.
C3_GuardIffUnsafe ==
    \A p \in Callers :
        (pc[p] = "done" /\ call[p].op = "_check_read_only")
        => /\ ret[p].raised \in {"None", "QueryExecutionError"}
           /\ (ret[p].raised = "QueryExecutionError")
              <=> (call[p].read_only
                   /\ ~ClassifiedReadOnlySafe(call[p].sql_query))

\* C3 witness: an unclassified statement (VACUUM) was rejected under
\* read_only, which is the fail-closed case
C3_Witness ==
    \E p \in Callers :
        /\ pc[p] = "done"
        /\ call[p].op = "_check_read_only"
        /\ call[p].read_only
        /\ call[p].sql_query = KwVacuum
        /\ ~ClassifiedWrite(call[p].sql_query)
        /\ ret[p].raised = "QueryExecutionError"

IsPrefixOf(a, b) ==
    Len(a) <= Len(b) /\ \A i \in 1..Len(a) : a[i] = b[i]

\* C4: on a read-only adapter, query() of a read-only-safe statement is
\* not rejected: the text reaches the driver's execute and, when the driver
\* returns, query() returns the driver's columns, rows (capped) and time;
\* explain_query, list_tables, get_schema and describe_table make their
\* driver call and never end with the policy error.
C4_ReadsNotRejected ==
    \A p \in Callers :
        (pc[p] # "idle" /\ Self(p).read_only)
        => /\ ret[p].raised # "QueryExecutionError"
              \/ (call[p].op = "query"
                  /\ ~ClassifiedReadOnlySafe(call[p].sql_query))
           /\ (call[p].op = "query"
               /\ ClassifiedReadOnlySafe(call[p].sql_query))
              => /\ driverCalls[p] = <<[method |-> "execute",
                                        arg |-> call[p].sql_query]>>
                 /\ (pc[p] = "done" /\ ret[p].raised = "None")
                    => /\ ret[p].value.columns = driverRet[p].columns
                       /\ IsPrefixOf(ret[p].value.rows, driverRet[p].rows)
                       /\ ret[p].value.execution_time_ms
                            = driverRet[p].execution_time_ms
           /\ call[p].op # "query" => Len(driverCalls[p]) = 1

\* C4 witness: a lower-case WITH behind whitespace returned a row
C4_Witness ==
    \E p \in Callers :
        /\ IsQueryOn(p, TRUE)
        /\ call[p].sql_query = <<" ", "\n">> \o lower(KwWith) \o TailOne
        /\ pc[p] = "done"
        /\ ret[p].raised = "None"
        /\ ret[p].value.row_count = 1

\* the index of the first statement of the batch that the guard rejects,
\* 0 when there is none
FirstDisallowed(stmts) ==
    IF \E k \in DOMAIN stmts : ~ClassifiedReadOnlySafe(stmts[k])
    THEN CHOOSE k \in DOMAIN stmts :
            /\ ~ClassifiedReadOnlySafe(stmts[k])
            /\ \A j \in 1..(k - 1) : ClassifiedReadOnlySafe(stmts[j])
    ELSE 0

\* C5: on a read-only adapter, query() of a batch whose first disallowed
\* statement is the k-th hands the statements before it to the driver one
\* by one, in order, and then ends with the policy error, unless the driver
\* raised first.
C5_InterleavedValidation ==
    \A p \in Callers :
        LET stmts == _split_statements(call[p].sql_query)
            k == FirstDisallowed(stmts)
        IN  (IsQueryOn(p, TRUE) /\ pc[p] = "done" /\ k > 0
             /\ ret[p].raised # "DriverError")
            => /\ ret[p].raised = "QueryExecutionError"
               /\ driverCalls[p] =
                    [i \in 1..(k - 1) |->
                        [method |-> "execute", arg |-> stmts[i]]]

(***************************************************************************)
(* tools.py: the adapter cache.                                            *)
(*                                                                         *)
(* A context is what _get_config_from_context looks at: whether ctx has    *)
(* deps, whether deps has tool_configs, and the values of tool_configs in  *)
(* order.  A config has a kind ("absent": no such attribute) and the       *)
(* connection parameters.                                                  *)
(***************************************************************************)
MaxCreates == 2
MaxCloses == 2

Config(kind, url, ro, cap) ==
    [kind |-> kind, database_url |-> url, read_only |-> ro, max_rows |-> cap]

CfgA    == Config("sql", UrlA, TRUE, 2)
CfgB    == Config("sql", UrlB, TRUE, 2)
CfgRW   == Config("sql", UrlA, FALSE, 2)
CfgNeg1 == Config("sql", UrlA, TRUE, -1)
CfgNeg2 == Config("sql", UrlA, TRUE, -2)
CfgBad  == Config("sql", UrlBad, TRUE, 2)
CfgOther == Config("other", UrlB, FALSE, 2)
CfgNoKind == Config("absent", UrlB, FALSE, 2)

Ctx(has_deps, has_tool_configs, tool_configs) ==
    [has_deps |-> has_deps, has_tool_configs |-> has_tool_configs,
     tool_configs |-> tool_configs]

SqlContexts ==
    {Ctx(TRUE, TRUE, <<c>>) :
        c \in {CfgA, CfgB, CfgRW, CfgNeg1, CfgNeg2, CfgBad}}

Contexts ==
    SqlContexts
    \cup {Ctx(FALSE, FALSE, <<>>), Ctx(TRUE, FALSE, <<>>),
          Ctx(TRUE, TRUE, <<>>), Ctx(TRUE, TRUE, <<CfgOther, CfgNoKind>>),
          Ctx(TRUE, TRUE, <<CfgOther, CfgB, CfgA>>)}

\* _get_config_from_context: <<>> is None, <<config>> the config found
_get_config_from_context(ctx) ==
    IF ~ctx.has_deps THEN <<>>
    ELSE IF ~ctx.has_tool_configs THEN <<>>
    ELSE LET hits == {i \in DOMAIN ctx.tool_configs :
                        ctx.tool_configs[i].kind = "sql"}
         IN  IF hits = {} THEN <<>>
             ELSE <<ctx.tool_configs[CHOOSE i \in hits :
                                        \A j \in hits : i <= j]>>

\* config.py SQLToolSettings: the values taken when the environment sets none
EnvSettings ==
    [database_url |-> UrlEnv, read_only |-> TRUE, max_rows |-> 100]

\* SQLToolConfigBase(tool_name=..., database_url=..., ...): the class
\* inherits ToolConfig, whose tool_name has no default; tool_name is {}
\* when the caller passes none
SQLToolConfigBase(tool_name, database_url, read_only, max_rows) ==
    IF tool_name = {}
    THEN Raised("TypeError", <<"tool_name">>)
    ELSE Returned(Config("sql", database_url, read_only, max_rows))

\* _get_adapter lines 69-79: the config found in the context, else the
\* outcome of building one from the settings, which passes no tool_name
ConfigResult(ctx) ==
    LET found == _get_config_from_context(ctx)
    IN  IF found = <<>>
        THEN SQLToolConfigBase({}, EnvSettings.database_url,
                               EnvSettings.read_only, EnvSettings.max_rows)
        ELSE Returned(found[1])

\* _get_adapter: the config of the context, else the one asked for from the
\* settings
ToolConfigOf(ctx) ==
    LET found == _get_config_from_context(ctx)
    IN  IF found = <<>>
        THEN Config("sql", EnvSettings.database_url, EnvSettings.read_only,
                    EnvSettings.max_rows)
        ELSE found[1]

(***************************************************************************)
(* Python's hash().  hash(n) of a small integer is n, except that          *)
(* hash(-1) is -2; hash(True) is 1 and hash(False) is 0; the hash of a str *)
(* is taken to differ between the URLs of the model; the hash of a tuple   *)
(* is computed from the hashes of its elements alone, and is taken to      *)
(* differ whenever they differ.                                            *)
(***************************************************************************)
IntHash(n) == IF n = -1 THEN -2 ELSE n
BoolHash(b) == IF b THEN 1 ELSE 0
UrlList == <<UrlA, UrlB, UrlPg, UrlBad, UrlEnv>>
StrHash(s) == CHOOSE i \in DOMAIN UrlList : UrlList[i] = s
TupleHash(t) == <<StrHash(t[1]), BoolHash(t[2]), IntHash(t[3])>>

\* the connection parameters of a config, as the tuple the key is made of
ParamsOf(cfg) == <<cfg.database_url, cfg.read_only, cfg.max_rows>>

\* _get_adapter: config_hash = hash((database_url, read_only, max_rows)),
\* an int
ConfigHash(tool_config) ==
    [type |-> "int", value |-> TupleHash(ParamsOf(tool_config))]

\* a lookup that never finds the key
CacheNeverHas(cache, key) == FALSE

\* key in _adapter_cache
CacheHas(cache, key) == \E i \in DOMAIN cache : cache[i].key = key

\* _adapter_cache[key]
CacheGet(cache, key) ==
    cache[CHOOSE i \in DOMAIN cache : cache[i].key = key].value

\* _adapter_cache[key] = value: a new key goes last, a present key keeps
\* its place
CachePut(cache, key, value) ==
    IF \E i \in DOMAIN cache : cache[i].key = key
    THEN [i \in DOMAIN cache |->
            IF cache[i].key = key THEN [key |-> key, value |-> value]
            ELSE cache[i]]
    ELSE Append(cache, [key |-> key, value |-> value])

UnsupportedMsg == <<"Unsupported", "database", "URL">>

\* a create_deps that accepts every URL and leaves the error to the first
\* query
CreateDepsLazy(tool_config) == Returned([backend |-> "SQLiteDatabase"])

\* config.py _create_backend / create_deps: the deps, or the error raised
create_deps(tool_config) ==
    IF startswith(tool_config.database_url, {Sqlite})
    THEN Returned([backend |-> "SQLiteDatabase"])
    ELSE IF startswith(tool_config.database_url, {Postgresql})
         THEN Returned([backend |-> "PostgreSQLDatabase"])
         ELSE Raised("UnsupportedDatabaseError", UnsupportedMsg)

CountOf(seq, x) == Cardinality({i \in DOMAIN seq : seq[i] = x})

CacheCallers == {"c1", "c2"}

InitCache ==
    /\ adapters = <<>>
    /\ _adapter_cache = <<>>
    /\ createCalls = <<>>
    /\ returned = {}
    /\ db = [u \in {FixtureUrl} |-> 1]
    /\ pc = [p \in CacheCallers |-> "idle"]
    /\ call = [p \in CacheCallers |-> NoCall]
    /\ ret = [p \in CacheCallers |-> NoRet]
    /\ driverCalls = [p \in CacheCallers |-> <<>>]
    /\ driverRet = [p \in CacheCallers |-> NoDriverRet]
    /\ dbSeen = [p \in CacheCallers |-> NoSeen]
    /\ emitted = [p \in CacheCallers |-> <<>>]
    /\ elapsed = [p \in CacheCallers |-> 0]

ReturnedAdapter(a) == Returned([adapter |-> a])

Pair(tool_config, a) == [params |-> ParamsOf(tool_config), adapter |-> a]

GetAdapterCall(ctx) ==
    [op |-> "_get_adapter", tool_config |-> ToolConfigOf(ctx),
     config_hash |-> ConfigHash(ToolConfigOf(ctx)),
     from_env |-> _get_config_from_context(ctx) = <<>>]

(***************************************************************************)
(* _get_adapter(ctx) under cooperative scheduling: the function awaits     *)
(* nothing, so it runs from its first line to its return in one step.      *)
(***************************************************************************)
GetAdapter(p) ==
    \E ctx \in Contexts :
        LET c == GetAdapterCall(ctx)
            deps == create_deps(c.tool_config)
            new == Len(adapters) + 1
        IN  /\ pc[p] = "idle"
            /\ pc' = [pc EXCEPT ![p] = "done"]
            /\ call' = [call EXCEPT ![p] = c]
            /\ IF ConfigResult(ctx).raised # "None"
               THEN /\ ret' = [ret EXCEPT ![p] =
                        Raised(ConfigResult(ctx).raised,
                               ConfigResult(ctx).msg)]
                    /\ UNCHANGED <<adapters, _adapter_cache, createCalls,
                                   returned>>
               ELSE IF CacheHas(_adapter_cache, c.config_hash)
               THEN /\ ret' = [ret EXCEPT ![p] =
                        ReturnedAdapter(CacheGet(_adapter_cache,
                                                 c.config_hash))]
                    /\ returned' = returned \cup
                            {Pair(c.tool_config,
                                  CacheGet(_adapter_cache, c.config_hash))}
                    /\ UNCHANGED <<adapters, _adapter_cache, createCalls>>
               ELSE /\ Len(createCalls) < MaxCreates
                    /\ createCalls' = Append(createCalls, c.config_hash)
                    /\ IF deps.raised # "None"
                       THEN /\ ret' = [ret EXCEPT ![p] = deps]
                            /\ UNCHANGED <<adapters, _adapter_cache,
                                           returned>>
                       ELSE /\ new <= MaxAdapters
                            /\ adapters' = Append(adapters,
                                    Adapter(c.tool_config.database_url,
                                            c.tool_config.read_only,
                                            c.tool_config.max_rows))
                            /\ _adapter_cache' =
                                    CachePut(_adapter_cache,
                                             c.config_hash, new)
                            /\ ret' = [ret EXCEPT ![p] =
                                    ReturnedAdapter(new)]
                            /\ returned' = returned \cup
                                    {Pair(c.tool_config, new)}
            /\ UNCHANGED driverVars

(***************************************************************************)
(* close_all(): the loop over _adapter_cache.values() awaits each          *)
(* adapter's close(), so other callers run between two iterations; the     *)
(* dict iterator raises RuntimeError when the dict's size is no longer     *)
(* the size it had when the loop started; clear() follows the loop.        *)
(* call[p].pos is the number of values the iterator has yielded, and       *)
(* call[p].started the adapters the cache held when the call started.      *)
(***************************************************************************)
\* adapter.close(): database.close(); the open transaction is discarded
CloseCalled(a) == [adapters EXCEPT ![a].closes = @ + 1, ![a].pending = {}]

\* list(_adapter_cache.values()): the adapters the cache holds, in order
CachedAdapters == [i \in DOMAIN _adapter_cache |-> _adapter_cache[i].value]

\* the loop asks the iterator for its next value, pos values being yielded
LoopNext(p, size, pos, started) ==
    IF Len(_adapter_cache) # size
    THEN /\ pc' = [pc EXCEPT ![p] = "done"]
         /\ ret' = [ret EXCEPT ![p] =
                Raised("RuntimeError", <<"dictionary", "changed", "size">>)]
         /\ call' = [call EXCEPT ![p] =
                [op |-> "close_all", size |-> size, pos |-> pos,
                 started |-> started]]
         /\ UNCHANGED cacheVars
    ELSE IF pos < Len(_adapter_cache)
    THEN /\ adapters[_adapter_cache[pos + 1].value].closes < MaxCloses
         /\ pc' = [pc EXCEPT ![p] = "closing"]
         /\ ret' = ret
         /\ call' = [call EXCEPT ![p] =
                [op |-> "close_all", size |-> size, pos |-> pos + 1,
                 started |-> started]]
         /\ adapters' = CloseCalled(_adapter_cache[pos + 1].value)
         /\ UNCHANGED <<_adapter_cache, createCalls, returned>>
    ELSE /\ pc' = [pc EXCEPT ![p] = "done"]
         /\ ret' = [ret EXCEPT ![p] = Returned(NoValue)]
         /\ call' = [call EXCEPT ![p] =
                [op |-> "close_all", size |-> size, pos |-> pos,
                 started |-> started]]
         /\ _adapter_cache' = <<>>
         /\ createCalls' = <<>>
         /\ returned' = {}
         /\ UNCHANGED adapters

\* close_all() up to its first await
CloseAllStart(p) ==
    /\ pc[p] = "idle"
    /\ LoopNext(p, Len(_adapter_cache), 0, CachedAdapters)
    /\ UNCHANGED driverVars

\* the awaited close() returned: the loop goes on
CloseAwaited(p) ==
    /\ pc[p] = "closing"
    /\ LoopNext(p, call[p].size, call[p].pos, call[p].started)
    /\ UNCHANGED driverVars

\* the awaited close() raised: close_all() raises, clear() is not reached
CloseRaises(p) ==
    /\ pc[p] = "closing"
    /\ pc' = [pc EXCEPT ![p] = "done"]
    /\ ret' = [ret EXCEPT ![p] = Raised("DriverError", DriverErrorMsg)]
    /\ UNCHANGED <<cacheVars, driverVars, call>>

NextCache ==
    \E p \in CacheCallers :
        \/ GetAdapter(p)
        \/ CloseAllStart(p)
        \/ CloseAwaited(p)
        \/ CloseRaises(p)
        \/ Return(p)

SpecCache == InitCache /\ [][NextCache]_vars

(***************************************************************************)
(* One database file used through several connections, one after the      *)
(* other: a writable adapter runs queries and is closed, further adapters  *)
(* are opened on the same file (tests/functional/test_write_operations.py, *)
(* test_write_persists_across_adapters).                                   *)
(***************************************************************************)
InitDurable ==
    /\ \E d \in Drivers :
          adapters = <<WithDriver(Fixture(FixtureUrl, FALSE, FixtureMaxRows),
                                  d)>>
    /\ _adapter_cache = <<>>
    /\ createCalls = <<>>
    /\ returned = {}
    /\ db = [u \in {FixtureUrl} |-> 1]
    /\ pc = [p \in Callers |-> "idle"]
    /\ call = [p \in Callers |-> NoCall]
    /\ ret = [p \in Callers |-> NoRet]
    /\ driverCalls = [p \in Callers |-> <<>>]
    /\ driverRet = [p \in Callers |-> NoDriverRet]
    /\ dbSeen = [p \in Callers |-> NoSeen]
    /\ emitted = [p \in Callers |-> <<>>]
    /\ elapsed = [p \in Callers |-> 0]

\* the statements of the test: a write, a read, and a batch of both
DurableTexts ==
    {KwInsert \o TailT, KwDelete \o TailT, KwSelect \o TailOne,
     KwInsert \o TailT \o Semi \o KwSelect \o TailOne}

\* query(sql) with one of the test's statements and no max_rows
DurableQueryStart(p) ==
    \E a \in DOMAIN adapters, sql \in DurableTexts :
        QueryCall(p, a, sql, {})

\* SoliplexSQLAdapter.close(): await self._sql_deps.database.close()
AdapterClose(p) ==
    \E a \in DOMAIN adapters :
        /\ pc[p] = "idle"
        /\ adapters[a].closes < MaxCloses
        /\ adapters' = CloseCalled(a)
        /\ pc' = [pc EXCEPT ![p] = "done"]
        /\ call' = [call EXCEPT ![p] = [op |-> "close", self |-> a]]
        /\ ret' = [ret EXCEPT ![p] = Returned(NoValue)]
        /\ UNCHANGED <<_adapter_cache, createCalls, returned, driverVars>>

\* SoliplexSQLAdapter(deps) over a new connection to the same file
AdapterOpen(p) ==
    \E ro \in BOOLEAN :
        /\ pc[p] = "idle"
        /\ Len(adapters) < MaxAdapters
        /\ adapters' = Append(adapters,
                WithDriver(Fixture(FixtureUrl, ro, FixtureMaxRows),
                           adapters[1].driver))
        /\ pc' = [pc EXCEPT ![p] = "done"]
        /\ call' = [call EXCEPT ![p] =
                [op |-> "__init__", self |-> Len(adapters) + 1]]
        /\ ret' = [ret EXCEPT ![p] = Returned(NoValue)]
        /\ UNCHANGED <<_adapter_cache, createCalls, returned, driverVars>>

NextDurable ==
    \E p \in Callers :
        \/ DurableQueryStart(p)
        \/ ExecuteReturns(p)
        \/ DriverRaises(p)
        \/ AdapterClose(p)
        \/ AdapterOpen(p)
        \/ Return(p)

SpecDurable == InitDurable /\ [][NextDurable]_vars

(***************************************************************************)
(* _get_adapter(ctx) called from several OS threads: the interpreter may   *)
(* switch threads between any two statements, so the membership test, the  *)
(* construction and the store are separate steps.                          *)
(***************************************************************************)
ThreadContexts ==
    {Ctx(TRUE, TRUE, <<CfgA>>), Ctx(TRUE, TRUE, <<CfgB>>),
     Ctx(TRUE, TRUE, <<CfgBad>>), Ctx(FALSE, FALSE, <<>>)}

\* lines 69-88: the config and its key, both local to the call
T_Begin(p) ==
    \E ctx \in ThreadContexts :
        /\ pc[p] = "idle"
        /\ call' = [call EXCEPT ![p] = GetAdapterCall(ctx)]
        /\ IF ConfigResult(ctx).raised # "None"
           THEN /\ pc' = [pc EXCEPT ![p] = "done"]
                /\ ret' = [ret EXCEPT ![p] =
                        Raised(ConfigResult(ctx).raised,
                               ConfigResult(ctx).msg)]
           ELSE /\ pc' = [pc EXCEPT ![p] = "t_check"]
                /\ ret' = ret
        /\ UNCHANGED <<cacheVars, driverVars>>

\* a membership test that waits for the callers that construct or close
T_CheckLocked(p) ==
    /\ pc[p] = "t_check"
    /\ \A q \in CacheCallers \ {p} :
            pc[q] \notin {"t_create", "t_store", "closing"}
    /\ pc' = [pc EXCEPT ![p] =
            IF CacheHas(_adapter_cache, call[p].config_hash)
            THEN "t_read" ELSE "t_create"]
    /\ UNCHANGED <<cacheVars, driverVars, call, ret>>

\* line 91: if config_hash in _adapter_cache
T_Check(p) ==
    /\ pc[p] = "t_check"
    /\ pc' = [pc EXCEPT ![p] =
            IF CacheHas(_adapter_cache, call[p].config_hash)
            THEN "t_read" ELSE "t_create"]
    /\ UNCHANGED <<cacheVars, driverVars, call, ret>>

\* line 92: return _adapter_cache[config_hash]; the subscript raises
\* KeyError when the key was removed after the membership test
T_Read(p) ==
    /\ pc[p] = "t_read"
    /\ pc' = [pc EXCEPT ![p] = "done"]
    /\ IF CacheHas(_adapter_cache, call[p].config_hash)
       THEN /\ ret' = [ret EXCEPT ![p] =
                    ReturnedAdapter(CacheGet(_adapter_cache,
                                             call[p].config_hash))]
            /\ returned' = returned \cup
                    {Pair(call[p].tool_config,
                          CacheGet(_adapter_cache, call[p].config_hash))}
       ELSE /\ ret' = [ret EXCEPT ![p] = Raised("KeyError", <<"key">>)]
            /\ returned' = returned
    /\ UNCHANGED <<adapters, _adapter_cache, createCalls, driverVars, call>>

\* lines 95-96: create_deps() and the new adapter, or the error it raises
T_Create(p) ==
    LET deps == create_deps(call[p].tool_config)
        new == Len(adapters) + 1
    IN  /\ pc[p] = "t_create"
        /\ Len(createCalls) < MaxCreates
        /\ createCalls' = Append(createCalls, call[p].config_hash)
        /\ IF deps.raised # "None"
           THEN /\ pc' = [pc EXCEPT ![p] = "done"]
                /\ ret' = [ret EXCEPT ![p] = deps]
                /\ UNCHANGED <<adapters, call>>
           ELSE /\ new <= MaxAdapters
                /\ adapters' = Append(adapters,
                        Adapter(call[p].tool_config.database_url,
                                call[p].tool_config.read_only,
                                call[p].tool_config.max_rows))
                /\ call' = [call EXCEPT ![p] =
                        [op |-> "_get_adapter",
                         tool_config |-> call[p].tool_config,
                         config_hash |-> call[p].config_hash,
                         from_env |-> call[p].from_env,
                         adapter |-> new]]
                /\ pc' = [pc EXCEPT ![p] = "t_store"]
                /\ ret' = ret
        /\ UNCHANGED <<_adapter_cache, returned, driverVars>>

\* lines 97-99: _adapter_cache[config_hash] = adapter; return adapter
T_Store(p) ==
    /\ pc[p] = "t_store"
    /\ pc' = [pc EXCEPT ![p] = "done"]
    /\ _adapter_cache' =
            CachePut(_adapter_cache, call[p].config_hash, call[p].adapter)
    /\ ret' = [ret EXCEPT ![p] = ReturnedAdapter(call[p].adapter)]
    /\ returned' = returned \cup
            {Pair(call[p].tool_config, call[p].adapter)}
    /\ UNCHANGED <<adapters, createCalls, driverVars, call>>

NextThreads ==
    \E p \in CacheCallers :
        \/ T_Begin(p)
        \/ T_Check(p)
        \/ T_Read(p)
        \/ T_Create(p)
        \/ T_Store(p)
        \/ Return(p)

SpecThreads == InitCache /\ [][NextThreads]_vars

(***************************************************************************)
(* _get_adapter(ctx) called from several OS threads while the event loop   *)
(* runs close_all(): the statements of _get_adapter interleave with each   *)
(* other and with the iterations of close_all's loop.                      *)
(***************************************************************************)
NextThreadsSweep ==
    \E p \in CacheCallers :
        \/ T_Begin(p)
        \/ T_Check(p)
        \/ T_Read(p)
        \/ T_Create(p)
        \/ T_Store(p)
        \/ CloseAllStart(p)
        \/ CloseAwaited(p)
        \/ CloseRaises(p)
        \/ Return(p)

SpecThreadsSweep == InitCache /\ [][NextThreadsSweep]_vars

(***************************************************************************)
(* Claims about the cache.                                                 *)
(***************************************************************************)
\* C6: among the resolves since the last clear(), two with equal
\* connection parameters returned the same adapter and two whose
\* parameters differ returned different adapters.
C6_CacheIdentity ==
    \A x \in returned, y \in returned :
        (x.params = y.params) <=> (x.adapter = y.adapter)

\* the distinct parameter sets resolved since the last clear()
ResolvedParams == {x.params : x \in returned}

\* C7: the cache holds exactly one entry per distinct parameter set
\* resolved since the last clear(), and never two adapters built from
\* the same parameters.
C7_OneEntryPerParams ==
    /\ Len(_adapter_cache) = Cardinality(ResolvedParams)
    /\ \A i \in DOMAIN _adapter_cache, j \in DOMAIN _adapter_cache :
          i # j => ParamsOf(adapters[_adapter_cache[i].value])
                     # ParamsOf(adapters[_adapter_cache[j].value])

IsResolveDone(p) ==
    /\ pc[p] = "done"
    /\ call[p].op = "_get_adapter"
    /\ ret[p].raised = "None"

\* C8: whatever the interleaving of the callers, create_deps runs at most
\* once per key, and callers that resolved the same key hold the same
\* adapter.
C8_SingleConstruction ==
    /\ \A i \in DOMAIN createCalls :
          CountOf(createCalls, createCalls[i]) = 1
    /\ \A p \in CacheCallers, q \in CacheCallers :
          (IsResolveDone(p) /\ IsResolveDone(q)
           /\ call[p].config_hash = call[q].config_hash)
          => ret[p].value.adapter = ret[q].value.adapter

\* the entries of the key in the cache, as the claim reads it
EntriesOf(cache, key) == {i \in DOMAIN cache : cache[i].key = key}

\* a step in which caller p resolves a key that is already cached
HitStep(p) ==
    /\ pc[p] = "idle"
    /\ pc'[p] = "done"
    /\ call'[p].op = "_get_adapter"
    /\ EntriesOf(_adapter_cache, call'[p].config_hash) # {}

\* C9: a resolve of a cached key returns the cached adapter, constructs
\* nothing and leaves the cache as it is; for every cached key create_deps
\* was called exactly once since the last clear().
C9_HitConstructsNothing ==
    /\ [](\A i \in DOMAIN _adapter_cache :
            /\ CountOf(createCalls, _adapter_cache[i].key) = 1
            /\ Cardinality(EntriesOf(_adapter_cache,
                                     _adapter_cache[i].key)) = 1)
    /\ [][\A p \in CacheCallers :
            HitStep(p)
            => /\ _adapter_cache' = _adapter_cache
               /\ adapters' = adapters
               /\ createCalls' = createCalls
               /\ \E i \in EntriesOf(_adapter_cache, call'[p].config_hash) :
                    ret'[p] = ReturnedAdapter(_adapter_cache[i].value)]_vars

\* C9 witness: both callers hold the adapter of one key, and create_deps
\* was called once
C9_Witness ==
    /\ IsResolveDone("c1")
    /\ IsResolveDone("c2")
    /\ call["c1"].config_hash = call["c2"].config_hash
    /\ ret["c1"].value.adapter = ret["c2"].value.adapter
    /\ createCalls = <<call["c1"].config_hash>>
    /\ Len(_adapter_cache) = 1

\* C10: every key of the cache is the tuple of the connection parameters
\* of the adapter stored under it.
C10_KeyIsTuple ==
    \A i \in DOMAIN _adapter_cache :
        /\ _adapter_cache[i].key.type = "tuple"
        /\ _adapter_cache[i].key.value
             = ParamsOf(adapters[_adapter_cache[i].value])

(***************************************************************************)
(* Claims about close_all.                                                 *)
(***************************************************************************)
\* the step in which caller p's close_all() returns
SweepCompletes(p) ==
    /\ pc[p] # "done"
    /\ pc'[p] = "done"
    /\ call'[p].op = "close_all"
    /\ ret'[p].raised = "None"

\* C11: when a close_all() returns, the cache is empty and every adapter
\* the cache held when the call started has received exactly one close
\* call.
C11_SweepClosesOnce ==
    [][\A p \in CacheCallers :
         SweepCompletes(p)
         => /\ _adapter_cache' = <<>>
            /\ \A a \in Range(call'[p].started) :
                 adapters'[a].closes = 1]_vars

\* the step in which caller p's _get_adapter returns an adapter
ResolveReturns(p) ==
    /\ pc[p] # "done"
    /\ pc'[p] = "done"
    /\ call'[p].op = "_get_adapter"
    /\ ret'[p].raised = "None"

\* C12: no adapter of the cache has a close call made on it (close_all
\* takes the entries out before it closes them), and no resolve returns an
\* adapter that close_all has closed or is closing.
C12_ClosedNotCached ==
    /\ [](\A i \in DOMAIN _adapter_cache :
            adapters[_adapter_cache[i].value].closes = 0)
    /\ [][\A p \in CacheCallers :
            ResolveReturns(p)
            => adapters'[ret'[p].value.adapter].closes = 0]_vars

\* the membership test of p found the key, which is still in the cache
HitPending(p) ==
    /\ pc[p] = "t_read"
    /\ CacheHas(_adapter_cache, call[p].config_hash)

\* C13: a resolve of a cached key never waits: its membership test and its
\* read of the entry can each be taken in every state, whatever the other
\* caller is doing (constructing an adapter, closing adapters), and the
\* read returns the cached adapter.
C13_HitNeverWaits ==
    \A p \in CacheCallers :
        /\ (pc[p] = "t_check"
            /\ CacheHas(_adapter_cache, call[p].config_hash))
           => ENABLED (T_Check(p) /\ pc'[p] = "t_read")
        /\ HitPending(p)
           => ENABLED (T_Read(p)
                       /\ ret'[p] = ReturnedAdapter(
                              CacheGet(_adapter_cache, call[p].config_hash)))

\* a caller is about to read a cached entry while the other caller is
\* in the middle of close_all's loop
C13_Witness ==
    \E p \in CacheCallers, q \in CacheCallers :
        /\ p # q
        /\ HitPending(p)
        /\ pc[q] = "closing"

(***************************************************************************)
(* Claims about query(): commit, driver errors, the batch, the row cap.    *)
(***************************************************************************)
\* the query() of p has ended
QueryDone(p) == pc[p] = "done" /\ call[p].op = "query"

\* the query() of p returned normally
QueryReturned(p) == QueryDone(p) /\ ret[p].raised = "None"

\* some statement of the batch of the text is classified as a write
HasWrite(sql) ==
    \E i \in DOMAIN _split_statements(sql) :
        ClassifiedWrite(_split_statements(sql)[i])

\* the positions of the driver calls of p that are a commit
CommitCalls(p) ==
    {i \in DOMAIN driverCalls[p] : driverCalls[p][i].method = "commit"}

\* the execute calls of p, in order
ExecuteCalls(p) ==
    SelectSeq(driverCalls[p], LAMBDA c : c.method = "execute")

\* C14: when query() has returned normally, a batch with a statement
\* classified as a write has exactly one commit call, made after all the
\* execute calls, and a batch without one has no commit call.
C14_CommitOncePerWriteBatch ==
    \A p \in Callers :
        QueryReturned(p)
        => IF HasWrite(call[p].sql_query)
           THEN CommitCalls(p) = {Len(driverCalls[p])}
           ELSE CommitCalls(p) = {}

\* the text is one SELECT statement
IsOneSelect(sql) ==
    /\ Len(_split_statements(sql)) = 1
    /\ SpellsOneOf(_split_statements(sql)[1], {KwSelect})

\* C15: when an adapter that has not written returns from a SELECT while
\* the only adapter that wrote to the same file through query() is closed,
\* the SELECT sees the table as that adapter's last write left it.
C15_WritesDurable ==
    \A p \in Callers :
        (QueryReturned(p) /\ IsOneSelect(call[p].sql_query)
         /\ Self(p).wrote = {} /\ driverCalls[p] # <<>>)
        => \A a \in DOMAIN adapters :
             (/\ adapters[a].closes > 0
              /\ adapters[a].wrote # {}
              /\ adapters[a].database_url = Url(p)
              /\ \A c \in DOMAIN adapters \ {a} : adapters[c].wrote = {})
             => Len(driverRet[p].rows) \in adapters[a].wrote

\* C16: on a driver without a connection, or with a connection without
\* commit, a query() of a write batch whose execute returned raises no
\* error and returns what it returns on a driver with commit.
C16_MissingCommitTolerated ==
    \A p \in Callers :
        (/\ QueryDone(p)
         /\ driverCalls[p] # <<>>
         /\ driverRet[p].raised = "None"
         /\ HasWrite(call[p].sql_query)
         /\ Self(p).driver.connection # "commit")
        => /\ ret[p].raised = "None"
           /\ ret[p] = Returned(QueryValue(
                    driverRet[p], call[p].max_rows,
                    WithDriver(Self(p),
                               [Self(p).driver EXCEPT
                                    !.connection = "commit"])))

\* C16 witness: an INSERT returned on a driver that has no connection
C16_Witness ==
    \E p \in Callers :
        /\ QueryReturned(p)
        /\ call[p].sql_query = KwInsert \o TailT
        /\ Self(p).driver.connection = "none"
        /\ driverCalls[p] # <<>>
        /\ dbSeen[p].after = dbSeen[p].before + 1

\* C17: when the driver raised in a query(), the caller gets the driver's
\* error as it is, and the one execute call is the only driver call: no
\* retry, no further statement, no commit.
C17_DriverErrorPropagates ==
    \A p \in Callers :
        (QueryDone(p) /\ driverRet[p].raised # "None")
        => /\ ret[p].raised = driverRet[p].raised
           /\ ret[p].msg = driverRet[p].msg
           /\ Len(driverCalls[p]) = 1
           /\ driverCalls[p][1].method = "execute"
           /\ CommitCalls(p) = {}

\* C17 witness: the driver timed out on a batch that holds a write
C17_Witness ==
    \E p \in Callers :
        /\ QueryDone(p)
        /\ call[p].sql_query = KwInsert \o TailT \o Semi \o KwSelect \o TailOne
        /\ driverRet[p].raised = "DriverError"
        /\ ret[p].msg = <<"timeout">>

\* C18: when query() has returned normally, its execute calls are one per
\* statement of the batch, each of that statement alone, in the splitter's
\* order, and the result is the table as the whole batch left it.
C18_OneExecutePerStatement ==
    \A p \in Callers :
        QueryReturned(p)
        => LET stmts == _split_statements(call[p].sql_query)
               calls == ExecuteCalls(p)
           IN  /\ Len(calls) = Len(stmts)
               /\ \A i \in DOMAIN calls :
                    _split_statements(calls[i].arg) = <<stmts[i]>>
               /\ dbSeen[p].after = ApplyAll(dbSeen[p].before, stmts)

\* the limit the claims name: the argument when one is given, else the
\* adapter's max_rows
EffectiveLimit(p) ==
    IF call[p].max_rows = {} THEN Self(p).max_rows
    ELSE CHOOSE n \in call[p].max_rows : TRUE

\* C19: in every result of query(), row_count is the number of rows
\* returned, is at most the effective limit, and truncated tells whether
\* the driver returned more rows than the limit.
C19_RowCap ==
    \A p \in Callers :
        (QueryReturned(p) /\ driverCalls[p] # <<>>)
        => /\ ret[p].value.row_count = Len(ret[p].value.rows)
           /\ ret[p].value.row_count <= EffectiveLimit(p)
           /\ ret[p].value.truncated
              <=> Len(driverRet[p].rows) > EffectiveLimit(p)

\* C20: a max_rows argument, 0 included, is the limit whatever the
\* adapter's default: the result is the first max_rows rows of the
\* driver's, truncated iff the driver returned more; without the argument
\* the adapter's max_rows is the limit.
C20_ArgumentIsLimit ==
    \A p \in Callers :
        (QueryReturned(p) /\ driverCalls[p] # <<>>)
        => \A n \in (IF call[p].max_rows = {} THEN {Self(p).max_rows}
                      ELSE call[p].max_rows) :
             /\ ret[p].value.rows = PySlice(driverRet[p].rows, n)
             /\ ret[p].value.truncated = (Len(driverRet[p].rows) > n)

(***************************************************************************)
(* Claims about sample_query, the empty batch and the batch's result.      *)
(***************************************************************************)
\* the call of p, as far as it has come, is what query(sql, max_rows = m)
\* on the same adapter makes of the same table and the same driver
\* answer: the guard's verdict, the driver calls, the outcome
RunsAsQuery(p, m) ==
    LET chk == _check_read_only(Self(p).read_only, call[p].sql_query)
        execute == <<[method |-> "execute", arg |-> call[p].sql_query]>>
    IN  IF chk.raised # "None"
        THEN pc[p] = "done" /\ ret[p] = chk /\ driverCalls[p] = <<>>
        ELSE /\ driverCalls[p] = execute
             /\ pc[p] = "done"
                => IF driverRet[p].raised # "None"
                   THEN /\ ret[p].raised = driverRet[p].raised
                        /\ ret[p].msg = driverRet[p].msg
                   ELSE ret[p] = Returned(QueryValue(driverRet[p], m,
                                                     Self(p)))

\* C21: a sample_query(sql, limit) runs as query(sql, max_rows = limit)
\* does: same guard verdict, same driver calls (no commit among them),
\* same outcome; an omitted limit counts as 5.
C21_SampleIsQuery ==
    \A p \in Callers :
        (pc[p] # "idle" /\ call[p].op = "sample_query")
        => /\ call[p].limit = {} => RunsAsQuery(p, {5})
           /\ call[p].limit # {} => RunsAsQuery(p, call[p].limit)

\* C21 witness: a sample_query without limit returned more rows than the
\* adapter's max_rows allows
C21_Witness ==
    \E p \in Callers :
        /\ pc[p] = "done"
        /\ call[p].op = "sample_query"
        /\ call[p].limit = {}
        /\ ret[p].raised = "None"
        /\ ret[p].value.row_count > Self(p).max_rows

\* C22: a query() of a text that splits into no statement is over at
\* once, on a read-only adapter as on a writable one: it has returned the
\* empty result (no columns, no rows, row_count 0, not truncated) and made
\* no driver call; the guard has raised nothing.
C22_EmptyBatchReturnsEmpty ==
    \A p \in Callers :
        (/\ pc[p] # "idle"
         /\ call[p].op = "query"
         /\ _split_statements(call[p].sql_query) = <<>>)
        => /\ pc[p] = "done"
           /\ ret[p].raised = "None"
           /\ ret[p].value.columns = <<>>
           /\ ret[p].value.rows = <<>>
           /\ ret[p].value.row_count = 0
           /\ ~ret[p].value.truncated
           /\ driverCalls[p] = <<>>

\* what the statements of a batch, executed one by one on a table of n
\* rows, add up to: the columns of the last statement that produced
\* columns, the rows of all that did, the sum of the execution times
RECURSIVE BatchResult(_, _, _)
BatchResult(n, stmts, acc) ==
    IF stmts = <<>> THEN acc
    ELSE LET after == ApplyStatement(n, Head(stmts))
             r == DriverResult(after, Head(stmts))
         IN  BatchResult(after, Tail(stmts),
                [columns |-> IF r.columns # <<>> THEN r.columns
                             ELSE acc.columns,
                 rows |-> IF r.columns # <<>> THEN acc.rows \o r.rows
                          ELSE acc.rows,
                 execution_time_ms |->
                     acc.execution_time_ms + r.execution_time_ms])

\* C23: when query() has returned normally from a batch of two or more
\* statements, the result has the columns of the last statement that
\* produced columns, its rows are the first rows of the concatenation of
\* the rows of the statements that produced columns (all of them unless
\* truncated), and its execution time is the sum over the statements.
C23_BatchResultAccumulates ==
    \A p \in Callers :
        LET stmts == _split_statements(call[p].sql_query)
            total == BatchResult(dbSeen[p].before, stmts,
                        [columns |-> <<>>, rows |-> <<>>,
                         execution_time_ms |-> 0])
        IN  (QueryReturned(p) /\ driverCalls[p] # <<>> /\ Len(stmts) >= 2)
            => /\ ret[p].value.columns = total.columns
               /\ IsPrefixOf(ret[p].value.rows, total.rows)
               /\ ~ret[p].value.truncated
                  => ret[p].value.rows = total.rows
               /\ ret[p].value.execution_time_ms = total.execution_time_ms

(***************************************************************************)
(* The splitter.  A finished call of _split_statements, its text and its   *)
(* statements; the shapes of a text are stated on the text itself.         *)
(***************************************************************************)
SplitDone(p) == pc[p] = "done" /\ call[p].op = "_split_statements"

Statements(p) == ret[p].value.statements

Quotes == {"'", "\""}

Contains(stmt, sub) ==
    \E j \in 0..(Len(stmt) - Len(sub)) :
        SubSeq(stmt, j + 1, j + Len(sub)) = sub

\* s[i] opens a literal that s[k] closes: no quote before i, and no
\* occurrence of the opening character between i and k
LiteralAt(s, i, k) ==
    /\ i < k
    /\ s[i] \in Quotes
    /\ \A j \in 1..(i - 1) : s[j] \notin Quotes
    /\ s[k] = s[i]
    /\ \A j \in (i + 1)..(k - 1) : s[j] # s[i]

\* C24: _split_statements never splits at a ';' inside a quoted literal:
\* a literal opened by a quote character runs to the next occurrence of
\* that character, the other quote character inside it is ordinary text,
\* and the literal, with every ';' in it, is found whole in one statement.
C24_NoSplitInsideLiteral ==
    \A p \in Callers :
        SplitDone(p)
        => LET s == call[p].sql IN
           \A i, k \in DOMAIN s :
               LiteralAt(s, i, k)
               => \E n \in DOMAIN Statements(p) :
                      Contains(Statements(p)[n], SubSeq(s, i, k))

\* a text split in two outside the literal, whose literal holds a ';'
C24_Witness ==
    \E p \in Callers :
        /\ SplitDone(p)
        /\ Len(Statements(p)) = 2
        /\ LET s == call[p].sql IN
           \E i, k \in DOMAIN s :
               /\ LiteralAt(s, i, k)
               /\ \E j \in (i + 1)..(k - 1) : s[j] = ";"
               /\ Contains(Statements(p)[2], SubSeq(s, i, k))

\* the first place at or after from where sub is found in s, 0 if none
FirstAt(s, from, sub) ==
    LET at == {j \in from..(Len(s) - Len(sub) + 1) :
                  SubSeq(s, j, j + Len(sub) - 1) = sub}
    IN  IF at = {} THEN 0
        ELSE CHOOSE j \in at : \A k \in at : j <= k

\* the statements from the j-th on are found in s one after the other,
\* not overlapping, from position from on
RECURSIVE InInputOrder(_, _, _, _)
InInputOrder(s, from, stmts, j) ==
    IF j > Len(stmts) THEN TRUE
    ELSE LET at == FirstAt(s, from, stmts[j]) IN
         /\ at # 0
         /\ InInputOrder(s, at + Len(stmts[j]), stmts, j + 1)

\* C25: every element that _split_statements returns is non-empty and has
\* no leading or trailing whitespace, the elements appear in input order,
\* and a text of nothing but whitespace and semicolons (the empty text
\* included) yields the empty list.
C25_TrimmedNonEmptyOrdered ==
    \A p \in Callers :
        SplitDone(p)
        => LET s == call[p].sql
               stmts == Statements(p)
           IN  /\ \A n \in DOMAIN stmts :
                      /\ stmts[n] # <<>>
                      /\ ~IsSpace(stmts[n][1])
                      /\ ~IsSpace(stmts[n][Len(stmts[n])])
               /\ InInputOrder(s, 1, stmts, 1)
               /\ (\A i \in DOMAIN s : IsSpace(s[i]) \/ s[i] = ";")
                     => stmts = <<>>

\* two statements out of a text with an empty gap, a whitespace-only
\* segment or a trailing semicolon, and with whitespace to trim
C25_Witness ==
    \E p \in Callers :
        /\ SplitDone(p)
        /\ Len(Statements(p)) = 2
        /\ LET s == call[p].sql IN
           /\ Cardinality({i \in DOMAIN s : s[i] = ";"}) = 2
           /\ IsSpace(s[1])
           /\ \A i \in DOMAIN s : s[i] \notin Quotes

\* the quote character of the literal in which s ends, "" if it ends
\* outside every literal
RECURSIVE OpenQuote(_, _, _)
OpenQuote(s, i, quote) ==
    IF i > Len(s) THEN quote
    ELSE IF quote = ""
         THEN OpenQuote(s, i + 1, IF s[i] \in Quotes THEN s[i] ELSE "")
         ELSE OpenQuote(s, i + 1, IF s[i] = quote THEN "" ELSE quote)

\* s has no ';' and is not blank
SingleStatement(s) ==
    /\ \A i \in DOMAIN s : s[i] # ";"
    /\ strip(s) # <<>>

\* C26, as the spec states it: for every statement s that contains no ';'
\* and is not blank, _split_statements(s) and _split_statements(s + ";")
\* both return the one-element list [trim(s)].
C26_Original ==
    \A p \in Callers :
        (SplitDone(p) /\ SingleStatement(call[p].sql))
        => /\ Statements(p) = <<strip(call[p].sql)>>
           /\ _split_statements(call[p].sql \o Semi) = <<strip(call[p].sql)>>

\* C26, amended: for every statement s that contains no ';', is not blank
\* and does not end inside a quoted literal, _split_statements(s) and
\* _split_statements(s + ";") both return the one-element list [trim(s)].
C26_SingleStatementClosedQuotes ==
    \A p \in Callers :
        (/\ SplitDone(p)
         /\ SingleStatement(call[p].sql)
         /\ OpenQuote(call[p].sql, 1, "") = "")
        => /\ Statements(p) = <<strip(call[p].sql)>>
           /\ _split_statements(call[p].sql \o Semi) = <<strip(call[p].sql)>>

\* a statement with a closed literal and whitespace around it
C26_Witness ==
    \E p \in Callers :
        /\ SplitDone(p)
        /\ SingleStatement(call[p].sql)
        /\ OpenQuote(call[p].sql, 1, "") = ""
        /\ \E i \in DOMAIN call[p].sql : call[p].sql[i] \in Quotes
        /\ IsSpace(call[p].sql[1])
        /\ IsSpace(call[p].sql[Len(call[p].sql)])
        /\ Statements(p) = <<strip(call[p].sql)>>

\* s[i] opens a literal, s[j] and s[j + 1] are a doubled quote in it, a
\* ';' follows the doubled quote, and s[k] is the next quote after it
EscapedLiteralAt(s, i, j, k) ==
    /\ i < j /\ j + 1 < k
    /\ s[i] \in Quotes
    /\ \A n \in 1..(i - 1) : s[n] \notin Quotes
    /\ \A n \in (i + 1)..(j - 1) : s[n] # s[i]
    /\ s[j] = s[i] /\ s[j + 1] = s[i]
    /\ \A n \in (j + 2)..(k - 1) : s[n] # s[i]
    /\ \E n \in (j + 2)..(k - 1) : s[n] = ";"
    /\ s[k] = s[i]

\* C27: inside a quoted literal two consecutive occurrences of the opening
\* quote character are an escaped quote: both characters stay in the
\* statement and the literal goes on, so a ';' between the doubled quote
\* and the closing quote does not split the statement.
C27_DoubledQuoteStaysInside ==
    \A p \in Callers :
        SplitDone(p)
        => LET s == call[p].sql IN
           \A i, j, k \in DOMAIN s :
               EscapedLiteralAt(s, i, j, k)
               => \E n \in DOMAIN Statements(p) :
                      Contains(Statements(p)[n], SubSeq(s, i, k))

\* a literal with a doubled quote and a ';' after it, returned as the one
\* statement
C27_Witness ==
    \E p \in Callers :
        /\ SplitDone(p)
        /\ \E i, j, k \in DOMAIN call[p].sql :
               EscapedLiteralAt(call[p].sql, i, j, k)
        /\ Statements(p) = <<call[p].sql>>

\* s[i] opens a literal that is never closed
UnclosedAt(s, i) ==
    /\ s[i] \in Quotes
    /\ \A n \in 1..(i - 1) : s[n] \notin Quotes
    /\ \A n \in (i + 1)..Len(s) : s[n] # s[i]

\* the place of the last ';' of s before i, 0 if there is none
LastSemiBefore(s, i) ==
    LET at == {n \in 1..(i - 1) : s[n] = ";"}
    IN  IF at = {} THEN 0 ELSE CHOOSE n \in at : \A m \in at : m <= n

\* C28: when the text has a quote that is never closed, _split_statements
\* raises no error, and its last statement is the trimmed text from the
\* last ';' before the opening quote to the end of the input, with every
\* ';' after the opening quote in it.
C28_UnclosedQuoteRunsToEnd ==
    \A p \in Callers :
        SplitDone(p)
        => LET s == call[p].sql IN
           \A i \in DOMAIN s :
               UnclosedAt(s, i)
               => /\ ret[p].raised = "None"
                  /\ Statements(p) # <<>>
                  /\ Statements(p)[Len(Statements(p))] =
                         strip(SubSeq(s, LastSemiBefore(s, i) + 1, Len(s)))

\* an unclosed quote with a ';' before it and a ';' after it
C28_Witness ==
    \E p \in Callers :
        /\ SplitDone(p)
        /\ Len(Statements(p)) = 2
        /\ LET s == call[p].sql IN
           \E i \in DOMAIN s :
               /\ UnclosedAt(s, i)
               /\ LastSemiBefore(s, i) # 0
               /\ \E n \in (i + 1)..Len(s) : s[n] = ";"

\* the read-only-safe and write verdicts of the classifier on s
ClassOf(s) ==
    [read_only_safe |-> _check_read_only(TRUE, s).raised = "None",
     write |-> _is_write_query(s)]

\* s in other letter cases and behind other leading whitespace
Respelled(s) ==
    {lower(s), [i \in 1..Len(s) |-> UpperChar(s[i])], <<" ">> \o s,
     <<"\n", "\t">> \o lower(s)}

\* C29: a statement is read-only-safe iff, trimmed and upper-cased, it
\* starts with SELECT, EXPLAIN, PRAGMA, SHOW, DESCRIBE or WITH; it is a
\* write (_is_write_query) iff it starts with one of the ten write
\* keywords; no statement is both; letter case and leading whitespace do
\* not change the class.
C29_ClassifiedByLeadingKeyword ==
    \A p \in Callers :
        (pc[p] = "done" /\ call[p].op = "classify")
        => LET s == call[p].sql_query
               c == ret[p].value
           IN  /\ c.read_only_safe <=> ClassifiedReadOnlySafe(s)
               /\ c.write <=> ClassifiedWrite(s)
               /\ ~(c.read_only_safe /\ c.write)
               /\ \A v \in Respelled(s) : ClassOf(v) = c

\* a write keyword in lower case behind whitespace, classified a write
C29_Witness ==
    \E p \in Callers :
        /\ pc[p] = "done" /\ call[p].op = "classify"
        /\ call[p].sql_query = <<" ", "\n">> \o lower(KwMerge) \o TailT
        /\ ret[p].value = [read_only_safe |-> FALSE, write |-> TRUE]

\* the connection target matches no supported scheme
UnsupportedTarget(url) ==
    ~IsPrefixOf(Sqlite, url) /\ ~IsPrefixOf(Postgresql, url)

\* the step ends p's resolve of a target of no supported scheme
EndsUnsupportedResolve(p) ==
    /\ pc[p] # "done"
    /\ pc'[p] = "done"
    /\ call'[p].op = "_get_adapter"
    /\ UnsupportedTarget(call'[p].tool_config.database_url)

\* C30: a resolve whose connection target is neither sqlite nor postgresql
\* ends with UnsupportedDatabaseError when the adapter would be made: no
\* adapter is made and no call reaches a driver, no entry is registered
\* for its key, and the entries of the cache are as they were.
C30_UnsupportedFailsAtConstruction ==
    [][\A p \in CacheCallers :
          EndsUnsupportedResolve(p)
          => /\ ret'[p].raised = "UnsupportedDatabaseError"
             /\ adapters' = adapters
             /\ \A a \in DOMAIN adapters' :
                    adapters'[a].database_url
                        # call'[p].tool_config.database_url
             /\ driverCalls'[p] = <<>>
             /\ _adapter_cache' = _adapter_cache
             /\ ~CacheHas(_adapter_cache', call'[p].config_hash)]_vars

\* a resolve of an unsupported target has failed while the cache holds
\* the adapter of another target
C30_Witness ==
    \E p \in CacheCallers :
        /\ pc[p] = "done"
        /\ call[p].op = "_get_adapter"
        /\ UnsupportedTarget(call[p].tool_config.database_url)
        /\ ret[p].raised = "UnsupportedDatabaseError"
        /\ _adapter_cache # <<>>
        /\ ~CacheHas(_adapter_cache, call[p].config_hash)

\* the step ends p's resolve for a context in which no SQL config is found
EndsFallbackResolve(p) ==
    /\ pc[p] # "done"
    /\ pc'[p] = "done"
    /\ call'[p].op = "_get_adapter"
    /\ call'[p].from_env

\* C31: for a context without deps, without tool_configs or without a SQL
\* config, _get_adapter does not raise: it returns an adapter with the
\* environment settings (sqlite URL, read_only true, max_rows 100), and
\* when the cache already holds the adapter of those settings the call
\* returns that adapter and constructs none.
C31_FallbackToEnvironment ==
    [][\A p \in CacheCallers :
          EndsFallbackResolve(p)
          => /\ ret'[p].raised = "None"
             /\ LET a == adapters'[ret'[p].value.adapter] IN
                    /\ a.database_url = EnvSettings.database_url
                    /\ a.read_only = EnvSettings.read_only
                    /\ a.max_rows = EnvSettings.max_rows
             /\ CacheHas(_adapter_cache, call'[p].config_hash)
                   => /\ ret'[p].value.adapter =
                             CacheGet(_adapter_cache, call'[p].config_hash)
                      /\ adapters' = adapters]_vars

(***************************************************************************)
(* The task-progress events of a call.                                     *)
(***************************************************************************)
ProgressOps ==
    {"list_tables", "get_schema", "describe_table", "query", "explain_query"}

\* p's call is one of the five operations
InProgressOp(p) == pc[p] # "idle" /\ call[p].op \in ProgressOps

\* p's call was given an emitter and a task id
GivenEmitterAndTask(p) ==
    /\ "agui_emitter" \in DOMAIN call[p]
    /\ call[p].agui_emitter
    /\ call[p].related_task_id

\* the events of a call that attempted its driver call: in_progress
\* without a result, then, when the call has ended as errs says, one more
\* event
TwoEventProtocol(p, ended, errs) ==
    /\ emitted[p] # <<>>
    /\ emitted[p][1] = [status |-> "in_progress", result |-> <<>>]
    /\ ~ended => Len(emitted[p]) = 1
    /\ ended
         => /\ Len(emitted[p]) = 2
            /\ ~errs => emitted[p][2].status = "completed"
            /\ errs
                 => /\ emitted[p][2].status = "in_progress"
                    /\ IsPrefixOf(<<"Error:">>, emitted[p][2].result)
    /\ \A i \in DOMAIN emitted[p] :
           emitted[p][i].status = "completed" => i = Len(emitted[p])

DriverPending(p) ==
    pc[p] \in {"execute", "explain", "get_tables", "get_schema",
              "get_table_info"}

\* C32: every driver call of an operation is bounded by the configured
\* timeout: no driver call is still awaited after the timeout has passed,
\* an operation whose driver call outlasted the timeout ends with a
\* timeout error, and no commit is made for it.
C32_DriverCallBounded ==
    \A p \in Callers :
        /\ DriverPending(p) => elapsed[p] <= QueryTimeout
        /\ (pc[p] = "done" /\ elapsed[p] > QueryTimeout)
             => /\ ret[p].raised = "TimeoutError"
                /\ \A i \in DOMAIN driverCalls[p] :
                       driverCalls[p][i].method # "commit"

(***************************************************************************)
(* The keywords the message of the policy violation names.                 *)
(***************************************************************************)
\* a keyword as the message spells it
KeywordWord ==
    [k \in Keywords |->
        CASE k = KwSelect -> "SELECT"     [] k = KwExplain -> "EXPLAIN"
          [] k = KwPragma -> "PRAGMA"     [] k = KwShow -> "SHOW"
          [] k = KwDescribe -> "DESCRIBE" [] k = KwWith -> "WITH"
          [] k = KwInsert -> "INSERT"     [] k = KwUpdate -> "UPDATE"
          [] k = KwDelete -> "DELETE"     [] k = KwCreate -> "CREATE"
          [] k = KwDrop -> "DROP"         [] k = KwAlter -> "ALTER"
          [] k = KwReplace -> "REPLACE"   [] k = KwTruncate -> "TRUNCATE"
          [] k = KwMerge -> "MERGE"       [] k = KwCall -> "CALL"
          [] OTHER -> "VACUUM"]

\* the keywords among the words of a message
NamedIn(msg) == {k \in Keywords : KeywordWord[k] \in Range(msg)}

\* the guard of a read-only adapter was applied to p's text
GuardApplied(p) ==
    /\ pc[p] = "done"
    /\ call[p].op = "_check_read_only"
    /\ call[p].read_only

\* C34: the message of the policy violation names exactly the keywords the
\* guard accepts: a statement that starts with a keyword passes the guard
\* of a read-only adapter iff the message names that keyword.
C34_MessageNamesAcceptedKeywords ==
    \A p \in Callers :
        GuardApplied(p)
        => \A k \in Keywords :
             SpellsAt(call[p].sql_query, 0, k)
             => (ret[p].raised = "None" <=> k \in NamedIn(ReadOnlyMsg))

(***************************************************************************)
(* The policy of the adapter a resolve returns.                            *)
(***************************************************************************)
\* C38: the adapter _get_adapter returned for a config has the config's
\* read_only and the config's max_rows, so a caller configured read-only
\* holds no adapter that accepts writes.
C38_PolicyMatchesParams ==
    \A x \in returned :
        /\ adapters[x.adapter].read_only = x.params[2]
        /\ adapters[x.adapter].max_rows = x.params[3]
        /\ x.params[2] => adapters[x.adapter].read_only

(***************************************************************************)
(* The life of the adapters _get_adapter constructs.                       *)
(***************************************************************************)
\* the adapter is a value of the cache
Registered(a) == \E i \in DOMAIN _adapter_cache : _adapter_cache[i].value = a

\* _get_adapter has constructed the adapter and is about to register it
BeingRegistered(a) ==
    \E p \in CacheCallers : pc[p] = "t_store" /\ call[p].adapter = a

\* C35: every adapter _get_adapter has constructed is registered in the
\* cache or has received a close call: no entry is overwritten by a second
\* adapter of its key, and no adapter registered during a sweep is taken
\* out of the cache unclosed.
C35_NoAdapterLeaked ==
    \A a \in DOMAIN adapters :
        Registered(a) \/ BeingRegistered(a) \/ adapters[a].closes >= 1

\* C36: no adapter receives more than one close call from close_all,
\* whether the sweeps follow each other, run concurrently, or follow a
\* sweep that one adapter's close made raise.
C36_AtMostOneClose ==
    \A a \in DOMAIN adapters : adapters[a].closes <= 1

(***************************************************************************)
(* The tool functions of tools.py: query(ctx, ...), explain_query(ctx,     *)
(* ...) and list_tables(ctx) resolve the adapter with _get_adapter(ctx)    *)
(* and await the adapter's method.  Neither awaits before the driver       *)
(* call, so the resolve and the method up to its driver call are one step  *)
(* of the event loop; two tasks then wait for the driver on one adapter.   *)
(***************************************************************************)
ToolContexts ==
    {Ctx(TRUE, TRUE, <<c>>) : c \in {CfgA, CfgRW, CfgBad}}
    \cup {Ctx(FALSE, FALSE, <<>>)}

ToolTexts == {KwSelect \o TailOne, KwInsert \o TailT, KwWith \o TailOne}

\* _get_adapter(ctx) in the present state: its outcome, and the adapters,
\* the cache and the create_deps calls after it
Resolve(ctx) ==
    LET c == GetAdapterCall(ctx)
        cfg == ConfigResult(ctx)
        deps == create_deps(c.tool_config)
        new == Len(adapters) + 1
    IN  IF cfg.raised # "None"
        THEN [out |-> Raised(cfg.raised, cfg.msg), adapter |-> 0,
              adapters |-> adapters, cache |-> _adapter_cache,
              creates |-> createCalls]
        ELSE IF CacheHas(_adapter_cache, c.config_hash)
        THEN [out |-> Returned(NoValue),
              adapter |-> CacheGet(_adapter_cache, c.config_hash),
              adapters |-> adapters, cache |-> _adapter_cache,
              creates |-> createCalls]
        ELSE IF deps.raised # "None"
        THEN [out |-> Raised(deps.raised, deps.msg), adapter |-> 0,
              adapters |-> adapters, cache |-> _adapter_cache,
              creates |-> Append(createCalls, c.config_hash)]
        ELSE [out |-> Returned(NoValue), adapter |-> new,
              adapters |-> Append(adapters,
                                  Adapter(c.tool_config.database_url,
                                          c.tool_config.read_only,
                                          c.tool_config.max_rows)),
              cache |-> CachePut(_adapter_cache, c.config_hash, new),
              creates |-> Append(createCalls, c.config_hash)]

\* the tool function op: _get_adapter(ctx), then the adapter's method up
\* to its driver call (query() checks the text first); self is 0 when
\* _get_adapter raised
ToolCall(p, ctx, op, method, sql) ==
    LET r == Resolve(ctx)
        ok == r.out.raised = "None"
        a == r.adapter
        chk == IF ok /\ op = "query"
               THEN _check_read_only(r.adapters[a].read_only, sql)
               ELSE Returned(NoValue)
        seen == IF ~ok THEN 0
                ELSE IF r.adapters[a].pending = {}
                THEN db[r.adapters[a].database_url]
                ELSE CHOOSE n \in r.adapters[a].pending : TRUE
    IN  /\ Len(r.creates) <= MaxCreates
        /\ Len(r.adapters) <= MaxAdapters
        /\ adapters' = r.adapters
        /\ _adapter_cache' = r.cache
        /\ createCalls' = r.creates
        /\ returned' = IF ok
                       THEN returned \cup
                                {Pair(GetAdapterCall(ctx).tool_config, a)}
                       ELSE returned
        /\ call' = [call EXCEPT ![p] =
                [op |-> op, self |-> a, sql_query |-> sql, max_rows |-> {}]]
        /\ dbSeen' = [dbSeen EXCEPT ![p] = [before |-> seen, after |-> seen]]
        /\ IF ~ok
           THEN /\ pc' = [pc EXCEPT ![p] = "done"]
                /\ ret' = [ret EXCEPT ![p] = r.out]
                /\ driverCalls' = [driverCalls EXCEPT ![p] = <<>>]
           ELSE IF chk.raised # "None"
           THEN /\ pc' = [pc EXCEPT ![p] = "done"]
                /\ ret' = [ret EXCEPT ![p] = chk]
                /\ driverCalls' = [driverCalls EXCEPT ![p] = <<>>]
           ELSE /\ pc' = [pc EXCEPT ![p] = method]
                /\ ret' = ret
                /\ driverCalls' = [driverCalls EXCEPT ![p] =
                        <<[method |-> method, arg |-> sql]>>]
        /\ UNCHANGED <<db, driverRet, emitted, elapsed>>

\* tools.query(ctx, sql_query)
ToolQuery(p) ==
    /\ pc[p] = "idle"
    /\ \E ctx \in ToolContexts, sql \in ToolTexts :
          ToolCall(p, ctx, "query", "execute", sql)

\* tools.explain_query(ctx, sql_query)
ToolExplainQuery(p) ==
    /\ pc[p] = "idle"
    /\ \E ctx \in ToolContexts, sql \in ToolTexts :
          ToolCall(p, ctx, "explain_query", "explain", sql)

\* tools.list_tables(ctx)
ToolListTables(p) ==
    /\ pc[p] = "idle"
    /\ \E ctx \in ToolContexts :
          ToolCall(p, ctx, "list_tables", "get_tables", <<>>)

NextTools ==
    \E p \in CacheCallers :
        \/ ToolQuery(p)
        \/ ToolExplainQuery(p)
        \/ ToolListTables(p)
        \/ ExecuteReturns(p)
        \/ MetadataReturns(p)
        \/ DriverRaises(p)
        \/ Return(p)

SpecTools == InitCache /\ [][NextTools]_vars

\* p's call has made a driver call through an adapter of the cache
CalledDriver(p) == pc[p] # "idle" /\ driverCalls[p] # <<>>

\* C33: every execute, explain or metadata call made through an adapter
\* that _get_adapter returned is preceded by a connect on the adapter's
\* driver: the adapter has been connected when the call is made.
C33_ConnectedBeforeDriverCall ==
    \A p \in CacheCallers :
        CalledDriver(p) => adapters[call[p].self].connects >= 1

\* p and q both wait for the driver's execute in query(), on one adapter
\* of the cache
BothPending(p, q) ==
    /\ p # q
    /\ pc[p] = "execute" /\ pc[q] = "execute"
    /\ call[p].op = "query" /\ call[q].op = "query"
    /\ call[p].self = call[q].self

====
